---------------------------- MODULE Spec2Model ----------------------------
(***************************************************************************)
(* Verification model of worm/geometry.py and worm/model.py.               *)
(*                                                                         *)
(* The module holds one state machine per routine under study; each has    *)
(* its own variables, initial predicate and next-state relation, and the   *)
(* variables of the other machines stay at their idle values:              *)
(*   SpecImage  - shape_from_image (contour selection, head/tail, status)  *)
(*   SpecSides  - center_from_sides_* with with_width, shape_from_center   *)
(*   SpecTheta  - theta_from_center_discrete / center_from_theta_discrete  *)
(*   SpecCall   - center_from_theta with npoints, nsamples, resample       *)
(*   SpecWorm   - the WormModel class of model.py                          *)
(*   SpecDist   - distance_shape_to_contour_discrete                       *)
(*   SpecErode  - the erosion loop of center_from_sides_erosion            *)
(*   SpecPair   - the pairing loop of center_from_sides_min_projection     *)
(*   SpecSkel   - the skeleton walk of center_from_image_skeleton          *)
(* Arrays are functions on 0..n-1, as numpy indexes them.                  *)
(***************************************************************************)
EXTENDS Integers, Sequences, FiniteSets, TLC

VARIABLES
  \* ---- shape_from_image ----
  pc,            \* position in shape_from_image
  status,        \* the status accumulator (geometry.py:1326)
  exc,           \* "none", or the exception that ended the call
  retried,       \* the reduced-threshold detect_contour call was made
  cpath,         \* contour-selection branch taken
  hpath,         \* head/tail branch taken
  pts,           \* detect_contour result: index -> [outer, area]
  sel,           \* locals of the contour selection (outer, dist, imin, ...)
  ncontour,      \* argument ncontour
  peaks,         \* (peak_ids, peak_values) after the range filters
  ht,            \* locals of the head/tail step (hint, dist_h, dist_t, ...)
  imax,          \* the two indices handed to the side splitting
  ret,           \* returned tuple: [status, lens] or "none"
  \* ---- center_from_sides / shape_from_center ----
  spc,           \* position in the center_from_sides scenario
  sin,           \* call arguments: method, left, right, nsamples, npoints
  sout,          \* result of center_from_sides: center, width or exception
  sback,         \* result of shape_from_center on (center, width)
  \* ---- theta <-> center ----
  tpc,           \* position in the round trip scenario
  tcenter,       \* the input center line C
  tstate,        \* (theta, orientation, xy, length) of C
  tcenter2,      \* center_from_theta_discrete(tstate)
  tstate2,       \* theta_from_center_discrete(tcenter2)
  \* ---- center_from_theta with a requested point count ----
  cpc,           \* position in the center_from_theta call
  cargs,         \* call arguments: theta, orientation, xy, length, npoints, ...
  cret,          \* the returned center line, or the exception
  \* ---- WormModel ----
  wpc,           \* "new", "live" (an object exists), "failed" (constructor raised)
  worm,          \* the object's attributes: center, width, length, speed, ...
  wcall,         \* the last method call: name, arguments, exception, attributes before
  wops,          \* number of method calls made on the object
  \* ---- distance_shape_to_contour_discrete ----
  dpc,           \* "left", "right" (the two loops), "ends", "returned"
  din,           \* call arguments: npts, min_alignment, match_head_tail given
  di,            \* loop index i
  dout,          \* distances_left, intersection_pts_left, ..., tail_match
  dstep,         \* the last step: the intersections found, the arrays before it
  \* ---- erosion loop of center_from_sides_erosion ----
  epc,           \* "loop", "broken" (left by break), "exhausted" (range used up)
  ein,           \* erode, maxiter, and how many erosions the polygon survives
  eloop,         \* locals of the loop: i, last, w, and the buffer calls made
  \* ---- pairing loop of center_from_sides_min_projection ----
  ppc,           \* "start", "loop", "raised", "extended" (the loop was left)
  pin,           \* nsamples and center_offset
  ploop,         \* locals: il, ir, the samples put in full_left / full_right
  \* ---- skeleton walk of center_from_image_skeleton ----
  kpc,           \* "skel", "walk", "raised", "done"
  kin,           \* the skeleton pixels and the order adj lists them in
  kwalk          \* locals of the walk: e, p, p0, i, xy, and the exception

imgVars   == <<pc, status, exc, retried, cpath, hpath, pts, sel, ncontour,
               peaks, ht, imax, ret>>
sidesVars == <<spc, sin, sout, sback>>
thetaVars == <<tpc, tcenter, tstate, tcenter2, tstate2>>
callVars  == <<cpc, cargs, cret>>
wormVars  == <<wpc, worm, wcall, wops>>
distVars  == <<dpc, din, di, dout, dstep>>
erodeVars == <<epc, ein, eloop>>
pairVars  == <<ppc, pin, ploop>>
skelVars  == <<kpc, kin, kwalk>>
vars      == <<imgVars, sidesVars, thetaVars, callVars, wormVars, distVars, erodeVars,
               pairVars, skelVars>>

\* the variables of the other machines, left alone by each machine's steps
restOfImage == <<sidesVars, thetaVars, callVars, wormVars, distVars, erodeVars, pairVars,
                skelVars>>
restOfSides == <<imgVars, thetaVars, callVars, wormVars, distVars, erodeVars, pairVars,
                skelVars>>
restOfTheta == <<imgVars, sidesVars, callVars, wormVars, distVars, erodeVars, pairVars,
                skelVars>>
restOfCall  == <<imgVars, sidesVars, thetaVars, wormVars, distVars, erodeVars, pairVars,
                skelVars>>
restOfWorm  == <<imgVars, sidesVars, thetaVars, callVars, distVars, erodeVars, pairVars,
                skelVars>>
restOfDist  == <<imgVars, sidesVars, thetaVars, callVars, wormVars, erodeVars, pairVars,
                skelVars>>
restOfErode == <<imgVars, sidesVars, thetaVars, callVars, wormVars, distVars, pairVars,
                skelVars>>
restOfPair  == <<imgVars, sidesVars, thetaVars, callVars, wormVars, distVars, erodeVars,
                skelVars>>
restOfSkel  == <<imgVars, sidesVars, thetaVars, callVars, wormVars, distVars, erodeVars,
                pairVars>>

---------------------------------------------------------------------------
(* Bounds of the model                                                     *)

\* most contours detect_contour returns
MaxContours == 3
\* largest ncontour tried (ncontour ranges over 2..MaxNContour)
MaxNContour == 4

\* contour areas, cv2.matchShapes distances and size hints tried
Areas == 0..2
\* hint-to-sample distances tried
Distances == 0..1
\* curvature peak values tried
PeakValues == 1..2

---------------------------------------------------------------------------
(* numpy helpers                                                           *)

Min2(a, b) == IF a <= b THEN a ELSE b
Max2(a, b) == IF a >= b THEN a ELSE b
Abs(a)     == IF a < 0 THEN -a ELSE a

\* np.inf as used to knock out an already assigned index
Inf == 1000000

\* np.argmin of an array a with n >= 1 entries: the first index of the minimum
ArgMin(a, n) ==
  CHOOSE i \in 0..(n-1) :
    /\ \A j \in 0..(n-1) : a[i] <= a[j]
    /\ \A j \in 0..(i-1) : a[j] > a[i]

\* number of entries of an array (a function on 0..n-1)
Size(a) == Cardinality(DOMAIN a)

\* a[mask]: the entries of a whose index satisfies keep, in order
RECURSIVE Filter(_, _, _)
Filter(a, keep, n) ==
  IF n = 0 THEN << >>
  ELSE LET rest == Filter(a, keep, n-1)
       IN  IF keep[n-1] THEN Append(rest, a[n-1]) ELSE rest

\* a 1-based sequence as an array on 0..n-1
ToArray(s) == [i \in 0..(Len(s)-1) |-> s[i+1]]

EmptyArray == ToArray(<< >>)


\* np.argsort (ascending; equal values keep their index order, as numpy's
\* sort does on the short arrays considered here)
ArgSort(a, n) ==
  CHOOSE p \in [0..(n-1) -> 0..(n-1)] :
    \A i, j \in 0..(n-1) :
      i < j => \/ a[p[i]] < a[p[j]]
               \/ (a[p[i]] = a[p[j]] /\ p[i] < p[j])

\* np.sort of a pair
SortPair(a, b) == IF a <= b THEN <<a, b>> ELSE <<b, a>>

---------------------------------------------------------------------------
(* shape_from_image: status constants                                      *)

StatusThresholdReduced == 1000
StatusSingleContour    == 1
StatusSingleOuter      == 2
StatusContourHint      == 3
\* the size-hint branch reusing the constant of the contour-hint branch
StatusSizeHintSlip     == StatusContourHint
StatusSizeHint         == 4
StatusMostCentral      == 5
StatusHintPeaks        == 10
StatusTwoHighest       == 20
StatusHintOnePeak      == 30
StatusPeakAntipode     == 40
StatusHintNoPeak       == 50
StatusIndexZeroMid     == 60
StatusFailed           == -1

\* nextra = min(len(pts)-1, 20)
NExtraMax == 20

---------------------------------------------------------------------------
(* shape_from_image: inputs                                                *)

\* what detect_contour(..., with_hierarchy = True) can return: up to
\* MaxContours contours, each top-level (hrchy[:,-1] == -1) or a child, with
\* its cv2.contourArea; a non-empty hierarchy has a top-level contour
ContourLists ==
  UNION { { c \in [0..(n-1) -> [outer : BOOLEAN, area : Areas]] :
              n > 0 => \E i \in 0..(n-1) : c[i].outer }
          : n \in 0..MaxContours }

\* image.shape = (rows, columns) of the images tried
ImageShapes == { <<2, 2>>, <<1, 3>> }

\* contour centroids (m10/m00, m01/m00) = (x, y) inside an image of that shape
Pixels(shape) == (0..(shape[2]-1)) \X (0..(shape[1]-1))

\* numbers of points of the traced contour tried (len(pts))
ContourPoints == {2}

\* the elements of a finite set of integers in rising order
RECURSIVE Rising(_)
Rising(S) ==
  IF S = {} THEN << >>
  ELSE LET m == CHOOSE x \in S : \A y \in S : x <= y
       IN  <<m>> \o Rising(S \ {m})

\* what find_peaks can return on a padded curvature array of n entries:
\* rising peak indices and their values
RawPeaks(n) ==
  UNION { { [i \in 0..(Cardinality(S)-1) |->
               [id |-> Rising(S)[i+1], value |-> v[Rising(S)[i+1]]]] :
              v \in [S -> PeakValues] }
          : S \in SUBSET (0..(n-1)) }

---------------------------------------------------------------------------
(* shape_from_image: contour detection (geometry.py:1315-1334)             *)

NoSel == [branch |-> "none"]
NoHt  == [branch |-> "none"]
NoPeaks == [nextra |-> 0, p |-> EmptyArray, reduced |-> FALSE]
NoRet == [status |-> 0, returned |-> FALSE]

ImageInit ==
  /\ pc = "detect"
  /\ status = 0
  /\ exc = "none"
  /\ retried = FALSE
  /\ cpath = "none"
  /\ hpath = "none"
  /\ pts = EmptyArray
  /\ sel = NoSel
  /\ ncontour = 0
  /\ peaks = NoPeaks
  /\ ht = NoHt
  /\ imax = << >>
  /\ ret = NoRet

ImageIdle ==
  /\ pc = "idle"
  /\ status = 0
  /\ exc = "none"
  /\ retried = FALSE
  /\ cpath = "none"
  /\ hpath = "none"
  /\ pts = EmptyArray
  /\ sel = NoSel
  /\ ncontour = 0
  /\ peaks = NoPeaks
  /\ ht = NoHt
  /\ imax = << >>
  /\ ret = NoRet

\* the failure return of line 1334: np.zeros((npoints,2), np.zeros(npoints))
\* passes an array as dtype, which numpy rejects with TypeError before any
\* tuple is built
FailureReturn == [raises |-> "TypeError"]

\* contours found at the initial threshold: status stays 0
DetectFound ==
  /\ pc = "detect"
  /\ \E first \in ContourLists :
       /\ Size(first) > 0
       /\ pts' = first
  /\ status' = 0
  /\ pc' = "select"
  /\ UNCHANGED <<exc, retried, cpath, hpath, sel, ncontour, peaks, ht, imax, ret,
               restOfImage>>

\* none found, threshold_reduce given: second detect_contour call, +1000
DetectRetry ==
  /\ pc = "detect"
  /\ \E second \in ContourLists :
       /\ pts' = second
       /\ retried' = TRUE
       /\ status' = 0 + StatusThresholdReduced
       /\ IF Size(second) = 0
          THEN /\ pc' = "raised"
               /\ exc' = FailureReturn.raises
          ELSE /\ pc' = "select"
               /\ exc' = exc
  /\ UNCHANGED <<cpath, hpath, sel, ncontour, peaks, ht, imax, ret,
               restOfImage>>

\* none found and threshold_reduce is None: straight to the failure return
DetectGiveUp ==
  /\ pc = "detect"
  /\ pts' = EmptyArray
  /\ status' = 0
  /\ pc' = "raised"
  /\ exc' = FailureReturn.raises
  /\ UNCHANGED <<retried, cpath, hpath, sel, ncontour, peaks, ht, imax, ret,
               restOfImage>>

---------------------------------------------------------------------------
(* shape_from_image: contour selection (geometry.py:1337-1378)             *)

\* outer = np.where(hrchy[:,-1] == -1)[0]
Outer(c) ==
  ToArray(Filter([i \in DOMAIN c |-> i], [i \in DOMAIN c |-> c[i].outer], Size(c)))

\* outer = outer[areas > 0]
OuterPositive(c) ==
  LET o == Outer(c)
  IN  ToArray(Filter(o, [j \in DOMAIN o |-> c[o[j]].area > 0], Size(o)))

\* dist = np.abs(contourArea - size_hint)
SizeDist(c, outer, size_hint) ==
  [j \in DOMAIN outer |-> Abs(c[outer[j]].area - size_hint)]

\* np.linalg.norm(centroid - np.array(image.shape)/2): the centroid is
\* (x, y) = (m10/m00, m01/m00) and image.shape is (rows, columns), subtracted
\* component by component.  The value kept is 4 * norm^2, which has the same
\* argmin.
CentralDist(centroid, shape) ==
  (2 * centroid[1] - shape[1]) * (2 * centroid[1] - shape[1])
  + (2 * centroid[2] - shape[2]) * (2 * centroid[2] - shape[2])

SelRecord(branch, outer, chint, shint, dist, centroids, shape, imin, chosen) ==
  [branch |-> branch, outer |-> outer, contour_hint |-> chint,
   size_hint |-> shint, dist |-> dist, centroids |-> centroids,
   shape |-> shape, imin |-> imin, chosen |-> chosen]

NoSizeHint == [given |-> FALSE, value |-> 0]
SizeHints  == {NoSizeHint} \cup { [given |-> TRUE, value |-> a] : a \in Areas }

\* np.argmin(dist) over the remaining outer contours and the contour taken;
\* an empty dist makes np.argmin raise ValueError
Pick(branch, outer, chint, shint, dist, centroids, shape, code) ==
  IF Size(outer) = 0
  THEN /\ pc' = "raised"
       /\ exc' = "ValueError"
       /\ sel' = SelRecord(branch, outer, chint, shint, dist, centroids, shape, -1, -1)
       /\ UNCHANGED <<status, cpath>>
  ELSE LET imin == ArgMin(dist, Size(outer))
       IN  /\ pc' = "interpolate"
           /\ exc' = exc
           /\ status' = status + code
           /\ cpath' = branch
           /\ sel' = SelRecord(branch, outer, chint, shint, dist, centroids,
                               shape, imin, outer[imin])

\* len(pts) == 1: the contour is taken as it is
SelectSingle ==
  /\ pc = "select"
  /\ Size(pts) = 1
  /\ status' = status + StatusSingleContour
  /\ cpath' = "single"
  /\ sel' = SelRecord("single", EmptyArray, FALSE, NoSizeHint, EmptyArray,
                      EmptyArray, <<0, 0>>, -1, 0)
  /\ pc' = "interpolate"
  /\ UNCHANGED <<exc, retried, hpath, pts, ncontour, peaks, ht, imax, ret,
               restOfImage>>

\* several contours, exactly one outer contour of positive area
SelectSingleOuter ==
  /\ pc = "select"
  /\ Size(pts) # 1
  /\ LET outer == OuterPositive(pts)
     IN  /\ Size(outer) = 1
         /\ sel' = SelRecord("outer", outer, FALSE, NoSizeHint, EmptyArray,
                             EmptyArray, <<0, 0>>, -1, outer[0])
  /\ status' = status + StatusSingleOuter
  /\ cpath' = "outer"
  /\ pc' = "interpolate"
  /\ UNCHANGED <<exc, retried, hpath, pts, ncontour, peaks, ht, imax, ret,
               restOfImage>>

\* contour_hint is not None: smallest cv2.matchShapes distance
SelectContourHint ==
  /\ pc = "select"
  /\ Size(pts) # 1
  /\ LET outer == OuterPositive(pts)
     IN  /\ Size(outer) # 1
         /\ \E shint \in SizeHints, dist \in [DOMAIN outer -> Areas] :
              Pick("contour_hint", outer, TRUE, shint, dist, EmptyArray, <<0, 0>>,
                   StatusContourHint)
  /\ UNCHANGED <<retried, hpath, pts, ncontour, peaks, ht, imax, ret,
               restOfImage>>

\* contour_hint is None, size_hint is not None: area closest to size_hint
SelectSizeHint ==
  /\ pc = "select"
  /\ Size(pts) # 1
  /\ LET outer == OuterPositive(pts)
     IN  /\ Size(outer) # 1
         /\ \E shint \in SizeHints :
              /\ shint.given
              /\ Pick("size_hint", outer, FALSE, shint,
                      SizeDist(pts, outer, shint.value), EmptyArray, <<0, 0>>,
                      StatusSizeHint)
  /\ UNCHANGED <<retried, hpath, pts, ncontour, peaks, ht, imax, ret,
               restOfImage>>

\* no hint: centroid closest to np.array(image.shape)/2
SelectMostCentral ==
  /\ pc = "select"
  /\ Size(pts) # 1
  /\ LET outer == OuterPositive(pts)
     IN  /\ Size(outer) # 1
         /\ \E shape \in ImageShapes :
              \E centroids \in [DOMAIN outer -> Pixels(shape)] :
                Pick("central", outer, FALSE, NoSizeHint,
                     [j \in DOMAIN outer |-> CentralDist(centroids[j], shape)],
                     centroids, shape, StatusMostCentral)
  /\ UNCHANGED <<retried, hpath, pts, ncontour, peaks, ht, imax, ret,
               restOfImage>>

---------------------------------------------------------------------------
(* shape_from_image: contour spline and curvature peaks                    *)
(* (geometry.py:1384-1410)                                                 *)

\* nextra = min(len(pts)-1, 20)
NExtra(npts) == Min2(npts - 1, NExtraMax)

\* len(np.hstack([k[-nextra:], k, k[:nextra]])) for len(k) = n; k[-0:] is
\* the whole of k
PadLen(n, nextra) ==
  (IF nextra = 0 THEN n ELSE Min2(nextra, n)) + n + Min2(nextra, n)

\* peak_ids -= nextra, then the two range filters (lines 1399-1402)
FilterPeaks(p, nextra, n) ==
  IF Size(p) > 0
  THEN LET shifted == [i \in DOMAIN p |-> [id |-> p[i].id - nextra, value |-> p[i].value]]
           low     == ToArray(Filter(shifted, [i \in DOMAIN p |-> shifted[i].id >= 0], Size(p)))
       IN  ToArray(Filter(low, [i \in DOMAIN low |-> low[i].id < n], Size(low)))
  ELSE p

\* spline fit of the padded contour; the contour list is not read again
Interpolate ==
  /\ pc = "interpolate"
  /\ \E npts \in ContourPoints, n \in 2..MaxNContour :
       /\ ncontour' = n
       /\ peaks' = [nextra |-> NExtra(npts), p |-> EmptyArray, reduced |-> FALSE]
  /\ pts' = EmptyArray
  /\ sel' = NoSel
  /\ pc' = "peaks"
  /\ UNCHANGED <<status, exc, retried, cpath, hpath, ht, imax, ret,
               restOfImage>>

\* find_peaks(kk, delta) and the range filters
FindPeaks ==
  /\ pc = "peaks"
  /\ \E raw \in RawPeaks(PadLen(ncontour, peaks.nextra)) :
       peaks' = [peaks EXCEPT !.p = FilterPeaks(raw, peaks.nextra, ncontour)]
  /\ pc' = "retry"
  /\ UNCHANGED <<status, exc, retried, cpath, hpath, pts, sel, ncontour, ht, imax, ret,
               restOfImage>>

\* fewer than 2 peaks and delta_reduce given: find_peaks(kk, delta * delta_reduce)
RetryPeaks ==
  /\ pc = "retry"
  /\ Size(peaks.p) < 2
  /\ \E raw \in RawPeaks(PadLen(ncontour, peaks.nextra)) :
       peaks' = [peaks EXCEPT !.p = FilterPeaks(raw, peaks.nextra, ncontour),
                              !.reduced = TRUE]
  /\ pc' = "headtail"
  /\ UNCHANGED <<status, exc, retried, cpath, hpath, pts, sel, ncontour, ht, imax, ret,
               restOfImage>>

\* two peaks or more, or delta_reduce is None: the peaks stay
KeepPeaks ==
  /\ pc = "retry"
  /\ pc' = "headtail"
  /\ UNCHANGED <<status, exc, retried, cpath, hpath, pts, sel, ncontour, peaks, ht, imax, ret,
               restOfImage>>

---------------------------------------------------------------------------
(* shape_from_image: head and tail (geometry.py:1416-1481)                 *)

\* the tail keeps its first match although the head has it already
ResolveTieNever(dist_t, i_h, i_t, n) == i_t

\* if i_h == i_t: dist_t[i_t] = np.inf; i_t = np.argmin(dist_t)
ResolveTie(dist_t, i_h, i_t, n) ==
  IF i_h = i_t THEN ArgMin([dist_t EXCEPT ![i_t] = Inf], n) ELSE i_t

\* i_h, i_t of the two hints among n candidates
MatchHints(dist_h, dist_t, n) ==
  LET i_h == ArgMin(dist_h, n)
      i_t == ArgMin(dist_t, n)
  IN  <<i_h, ResolveTie(dist_t, i_h, i_t, n)>>

\* np.sort(peak_ids[np.argsort(peak_values)[-2:]])
TwoHighest(p) ==
  LET n     == Size(p)
      order == ArgSort([i \in DOMAIN p |-> p[i].value], n)
  IN  SortPair(p[order[n-2]].id, p[order[n-1]].id)

\* np.sort(np.mod(peak_ids[0] + np.array([0, ncontour//2]), ncontour))
Antipode(id, n) == SortPair((id + 0) % n, (id + (n \div 2)) % n)

\* np.round([0, ncontour//2])
ZeroAndMid(n) == <<0, n \div 2>>

HtRecord(branch, hint, dist_h, dist_t, tie) ==
  [branch |-> branch, hint |-> hint, npeaks |-> Size(peaks.p),
   dist_h |-> dist_h, dist_t |-> dist_t, tie |-> tie, before |-> status]

\* >= 2 peaks, head_tail_hint given: each hint to its nearest peak, +10
HeadTailHintPeaks ==
  /\ pc = "headtail"
  /\ Size(peaks.p) >= 2
  /\ LET n == Size(peaks.p)
     IN  \E dist_h \in [0..(n-1) -> Distances], dist_t \in [0..(n-1) -> Distances] :
           LET m == MatchHints(dist_h, dist_t, n)
           IN  /\ imax' = <<peaks.p[m[1]].id, peaks.p[m[2]].id>>
               /\ ht' = HtRecord("hint_peaks", TRUE, dist_h, dist_t,
                                 ArgMin(dist_h, n) = ArgMin(dist_t, n))
  /\ status' = status + StatusHintPeaks
  /\ hpath' = "hint_peaks"
  /\ pc' = "split"
  /\ UNCHANGED <<exc, retried, cpath, pts, sel, ncontour, peaks, ret,
               restOfImage>>

\* >= 2 peaks, no hint: the two highest peaks, +20
HeadTailTwoHighest ==
  /\ pc = "headtail"
  /\ Size(peaks.p) >= 2
  /\ imax' = TwoHighest(peaks.p)
  /\ ht' = HtRecord("two_highest", FALSE, EmptyArray, EmptyArray, FALSE)
  /\ status' = status + StatusTwoHighest
  /\ hpath' = "two_highest"
  /\ pc' = "split"
  /\ UNCHANGED <<exc, retried, cpath, pts, sel, ncontour, peaks, ret,
               restOfImage>>

\* 1 peak, head_tail_hint given: xy = np.array([x[id], y[id]]).T is a vector
\* of 2 numbers, so np.linalg.norm(xy - head_tail_hint[0], axis = 1) has no
\* axis 1 and raises AxisError (line 1439); nothing after it runs
HeadTailHintOnePeak ==
  /\ pc = "headtail"
  /\ Size(peaks.p) = 1
  /\ ht' = HtRecord("hint_one_peak", TRUE, EmptyArray, EmptyArray, FALSE)
  /\ exc' = "AxisError"
  /\ pc' = "raised"
  /\ UNCHANGED <<status, retried, cpath, hpath, pts, sel, ncontour, peaks, imax, ret,
               restOfImage>>

\* 1 peak, no hint: the peak and the sample half way round, +40
HeadTailAntipode ==
  /\ pc = "headtail"
  /\ Size(peaks.p) = 1
  /\ imax' = Antipode(peaks.p[0].id, ncontour)
  /\ ht' = HtRecord("antipode", FALSE, EmptyArray, EmptyArray, FALSE)
  /\ status' = status + StatusPeakAntipode
  /\ hpath' = "antipode"
  /\ pc' = "split"
  /\ UNCHANGED <<exc, retried, cpath, pts, sel, ncontour, peaks, ret,
               restOfImage>>

\* no peak, head_tail_hint given: contour samples nearest the hints, +50
HeadTailHintNoPeak ==
  /\ pc = "headtail"
  /\ Size(peaks.p) = 0
  /\ LET n == ncontour
     IN  \E dist_h \in [0..(n-1) -> Distances], dist_t \in [0..(n-1) -> Distances] :
           LET m == MatchHints(dist_h, dist_t, n)
           IN  /\ imax' = <<m[1], m[2]>>
               /\ ht' = HtRecord("hint_no_peak", TRUE, dist_h, dist_t,
                                 ArgMin(dist_h, n) = ArgMin(dist_t, n))
  /\ status' = status + StatusHintNoPeak
  /\ hpath' = "hint_no_peak"
  /\ pc' = "split"
  /\ UNCHANGED <<exc, retried, cpath, pts, sel, ncontour, peaks, ret,
               restOfImage>>

\* no peak, no hint: samples 0 and ncontour//2, +60
HeadTailZeroMid ==
  /\ pc = "headtail"
  /\ Size(peaks.p) = 0
  /\ imax' = ZeroAndMid(ncontour)
  /\ ht' = HtRecord("zero_mid", FALSE, EmptyArray, EmptyArray, FALSE)
  /\ status' = status + StatusIndexZeroMid
  /\ hpath' = "zero_mid"
  /\ pc' = "split"
  /\ UNCHANGED <<exc, retried, cpath, pts, sel, ncontour, peaks, ret,
               restOfImage>>

---------------------------------------------------------------------------
(* shape_from_image: sides, midline and return (geometry.py:1486-1597)     *)

\* Contour parameters count in units of du / (ncontour * (ncontour - 1))
\* from u0: us[i] is i * (ncontour - 1) and the period du is
\* ncontour * (ncontour - 1), so that both linspace steps are whole.
Period(n) == n * (n - 1)

\* u1 = np.linspace(us[imax[0]], us[imax[1]], ncontour)
LeftParameters(im, n) ==
  [j \in 0..(n-1) |-> im[1] * (n - 1) + j * (im[2] - im[1])]

\* u2 = np.linspace(us[imax[0]], us[imax[1]] - du, ncontour)
RightParameters(im, n) ==
  [j \in 0..(n-1) |-> im[1] * (n - 1) + j * (im[2] - im[1] - n)]

\* u2[u2 < u0] += du
WrapParameters(u2, n) ==
  [j \in DOMAIN u2 |-> IF u2[j] < 0 THEN u2[j] + Period(n) ELSE u2[j]]

\* left/right from the two parameters, center_from_sides_min_projection,
\* return status, center, left, right, width
SplitAndReturn ==
  /\ pc = "split"
  /\ ret' = [status |-> status, returned |-> TRUE,
             u1 |-> LeftParameters(imax, ncontour),
             u2 |-> WrapParameters(RightParameters(imax, ncontour), ncontour)]
  /\ peaks' = [NoPeaks EXCEPT !.reduced = peaks.reduced]
  /\ ht' = NoHt
  /\ pc' = "done"
  /\ UNCHANGED <<status, exc, retried, cpath, hpath, pts, sel, ncontour, imax,
               restOfImage>>

ImageNext ==
  \/ DetectFound
  \/ DetectRetry
  \/ DetectGiveUp
  \/ SelectSingle
  \/ SelectSingleOuter
  \/ SelectContourHint
  \/ SelectSizeHint
  \/ SelectMostCentral
  \/ Interpolate
  \/ FindPeaks
  \/ RetryPeaks
  \/ KeepPeaks
  \/ HeadTailHintPeaks
  \/ HeadTailTwoHighest
  \/ HeadTailHintOnePeak
  \/ HeadTailAntipode
  \/ HeadTailHintNoPeak
  \/ HeadTailZeroMid
  \/ SplitAndReturn

---------------------------------------------------------------------------
(* Center line <-> theta on a discrete mesh (geometry.py:584-780)          *)
(*                                                                         *)
(* Center lines are polylines with axis-parallel segments, so that every   *)
(* angle is a whole number of quarter turns (the unit of all angles here)  *)
(* and sines, cosines and segment lengths are integers.                    *)

\* np.arctan2(a, b) in quarter turns, for (a, b) on an axis
ArcTan2(a, b) ==
  CASE a = 0 /\ b >= 0 -> 0
    [] a > 0 /\ b = 0  -> 1
    [] a = 0 /\ b < 0  -> 2
    [] a < 0 /\ b = 0  -> -1

\* np.mod(phi + np.pi, 2 * np.pi) - np.pi
Wrap(phi) == ((phi + 2) % 4) - 2

Cos(phi) == CASE phi % 4 = 0 -> 1 [] phi % 4 = 2 -> -1 [] OTHER -> 0
Sin(phi) == CASE phi % 4 = 1 -> 1 [] phi % 4 = 3 -> -1 [] OTHER -> 0

\* np.linalg.norm of a vector on an axis
Norm(v) == Abs(v[1]) + Abs(v[2])

\* np.diff(center, axis = 0)
Diff(center) ==
  [i \in 0..(Size(center)-2) |->
     <<center[i+1][1] - center[i][1], center[i+1][2] - center[i][2]>>]

\* sum of a[0..k-1]
RECURSIVE SumTo(_, _)
SumTo(a, k) == IF k = 0 THEN 0 ELSE SumTo(a, k-1) + a[k-1]

\* n2 = (nsamples-1)//2 of theta_from_center_discrete (line 615)
ThetaAnchor(nsamples) == (nsamples - 1) \div 2

\* the center line anchored at its head instead of its middle sample
CenterAnchorHead(nsamples) == 0

\* n2 = (nsamples-1)//2 of center_from_theta_discrete (line 743)
CenterAnchor(nsamples) == (nsamples - 1) \div 2

\* theta_from_center_discrete(center) with npoints = nsamples = all:
\* (theta, orientation, xy, length)
ThetaFromCenter(center) ==
  LET nsamples  == Size(center)
      n2        == ThetaAnchor(nsamples)
      centervec == Diff(center)
      phi       == [i \in DOMAIN centervec |-> ArcTan2(centervec[i][1], centervec[i][2])]
  IN  [theta       |-> [i \in 0..(nsamples-3) |-> Wrap(phi[i] - phi[i+1]) * (nsamples - 1)],
       orientation |-> Wrap(ArcTan2(1, 0) - phi[n2]),
       xy          |-> center[n2],
       length      |-> SumTo([i \in DOMAIN centervec |-> Norm(centervec[i])], nsamples - 1)]

\* center_from_theta_discrete(theta, orientation, xy, length) with npoints =
\* nsamples = all.  delta = 1/(nsamples-1) is not an integer: the points are
\* returned as exact fractions num[i] / den with den = nsamples - 1.
CenterFromTheta(theta, orientation, xy, length) ==
  LET nsamples == Size(theta) + 2
      den      == nsamples - 1
      n2       == CenterAnchor(nsamples)
      \* np.cumsum(np.hstack([0, itheta])) * delta
      cum      == [i \in 0..(nsamples-2) |-> SumTo(theta, i) \div den]
      itheta   == [i \in DOMAIN cum |-> cum[i] + orientation - cum[n2]]
      \* x = np.cumsum(cos), y = np.cumsum(sin), preceded by [0, 0]
      x        == [i \in 0..(nsamples-1) |-> SumTo([j \in DOMAIN itheta |-> Cos(itheta[j])], i)]
      y        == [i \in 0..(nsamples-1) |-> SumTo([j \in DOMAIN itheta |-> Sin(itheta[j])], i)]
  IN  [den |-> den,
       num |-> [i \in 0..(nsamples-1) |->
                  <<length * x[i] + den * xy[1] - length * x[n2],
                    length * y[i] + den * xy[2] - length * y[n2]>>]]

\* theta_from_center_discrete on a center line given as fractions num/den
ThetaFromCenterFraction(c) ==
  LET t == ThetaFromCenter(c.num)
  IN  [theta       |-> t.theta,
       orientation |-> t.orientation,
       xy          |-> <<t.xy[1] \div c.den, t.xy[2] \div c.den>>,
       length      |-> t.length \div c.den,
       exact       |-> /\ t.xy[1] % c.den = 0
                       /\ t.xy[2] % c.den = 0
                       /\ t.length % c.den = 0]

\* largest number of center line points tried (from 5 up)
MaxPoints == 5

\* segment lengths and first points of the center lines tried
SegmentLengths == {1, 2}
Starts == { <<0, 0>>, <<3, -1>> }

\* the polyline from a first point along segments [dir, len]
Polyline(start, segs, k) ==
  LET dx == [j \in 0..(k-1) |-> segs[j+1].len * Cos(segs[j+1].dir)]
      dy == [j \in 0..(k-1) |-> segs[j+1].len * Sin(segs[j+1].dir)]
  IN  [i \in 1..(k+1) |-> <<start[1] + SumTo(dx, i-1), start[2] + SumTo(dy, i-1)>>]

\* the center lines of n points
CenterLines(n) ==
  { ToArray(Polyline(st, segs, n-1)) :
      st \in Starts, segs \in [1..(n-1) -> [dir : 0..3, len : SegmentLengths]] }

ThetaInit ==
  /\ tpc = "center"
  /\ \E n \in 5..MaxPoints : tcenter \in CenterLines(n)
  /\ tstate = << >>
  /\ tcenter2 = << >>
  /\ tstate2 = << >>

\* theta, orientation, xy, length = theta_from_center_discrete(C)
TakeTheta ==
  /\ tpc = "center"
  /\ tstate' = ThetaFromCenter(tcenter)
  /\ tpc' = "theta"
  /\ UNCHANGED <<tcenter, tcenter2, tstate2, restOfTheta>>

\* center_from_theta_discrete(theta, orientation, xy, length)
RebuildCenter ==
  /\ tpc = "theta"
  /\ tcenter2' = CenterFromTheta(tstate.theta, tstate.orientation, tstate.xy, tstate.length)
  /\ tpc' = "rebuilt"
  /\ UNCHANGED <<tcenter, tstate, tstate2, restOfTheta>>

\* theta_from_center_discrete of the rebuilt center line
RetakeTheta ==
  /\ tpc = "rebuilt"
  /\ tstate2' = ThetaFromCenterFraction(tcenter2)
  /\ tpc' = "retaken"
  /\ UNCHANGED <<tcenter, tstate, tcenter2, restOfTheta>>

ThetaNext ==
  \/ TakeTheta
  \/ RebuildCenter
  \/ RetakeTheta

---------------------------------------------------------------------------
(* Center line and width from the two sides (geometry.py:75-531) and the   *)
(* sides back from center line and width (geometry.py:853-1036)            *)
(*                                                                         *)
(* An array is a record of its length n (shape[0]) and, where the model    *)
(* follows them, its values v.  The values of what resample_curve, shapely *)
(* or scipy return are not followed: only the length is.                   *)

Known(a)   == [n |-> Size(a), known |-> TRUE, v |-> a]
Unknown(n) == [n |-> n, known |-> FALSE, v |-> EmptyArray]

\* resample_curve(curve, npoints) of interpolation.resampling
ResampleCurve(curve, npoints) == Unknown(npoints)

\* the integer square root, and whether s is a perfect square
ISqrt(s) == CHOOSE r \in 0..s : r * r <= s /\ (r + 1) * (r + 1) > s
IsSquare(s) == ISqrt(s) * ISqrt(s) = s

\* largest number of points of a side line, of nsamples and of npoints
MaxSide == 4

\* half the distance between the two parallel sides
HalfWidths == {1, 2}

\* nsamples / npoints: all, or a number
All == [all |-> TRUE, n |-> 0]
Counts == {All} \cup { [all |-> FALSE, n |-> k] : k \in 2..MaxSide }

\* straight parallel sides heading in direction dir, h to the left and h to
\* the right of the line from (0,0) in unit steps
SideLine(n, dir, off) ==
  [i \in 0..(n-1) |-> <<i * Cos(dir) + off * Cos(dir + 1), i * Sin(dir) + off * Sin(dir + 1)>>]

SidesInputs ==
  { [left     |-> Known(SideLine(nl, dir, h)),
     right    |-> Known(SideLine(nr, dir, -h)),
     nsamples |-> ns,
     npoints  |-> np,
     resample |-> rs] :
      nl \in 2..MaxSide, nr \in 2..MaxSide, dir \in 0..3, h \in HalfWidths,
      ns \in Counts, np \in Counts, rs \in BOOLEAN }

SidesInit ==
  /\ spc = "args"
  /\ sin \in SidesInputs
  /\ sout = << >>
  /\ sback = << >>

\* the common head of the center_from_sides_* functions: nsamples and
\* npoints default to max(nl, nr), the sides are resampled to nsamples
\* points when their lengths differ from it or resample is set
Prepare(a) ==
  LET nl == a.left.n
      nr == a.right.n
      nsamples == IF a.nsamples.all THEN Max2(nl, nr) ELSE a.nsamples.n
      npoints  == IF a.npoints.all THEN Max2(nl, nr) ELSE a.npoints.n
      again    == nl # nsamples \/ nr # nsamples \/ a.resample
  IN  [nsamples   |-> nsamples,
       npoints    |-> npoints,
       leftcurve  |-> IF again THEN ResampleCurve(a.left, nsamples) ELSE a.left,
       rightcurve |-> IF again THEN ResampleCurve(a.right, nsamples) ELSE a.right]

Returned(fn, center, width) == [fn |-> fn, exc |-> "none", center |-> center, width |-> width]
Raised(fn, e) == [fn |-> fn, exc |-> e, center |-> Unknown(0), width |-> Unknown(0)]

\* np.linalg.norm(a - b, axis = 1): one entry per point
NormAlongPoints(a, b) == Unknown(a.n)

\* np.linalg.norm(a - b, axis = 0): one entry per column, x and y
NormAlongColumns(a, b) ==
  LET sq(j) == SumTo([i \in DOMAIN a.v |-> (a.v[i][j] - b.v[i][j]) * (a.v[i][j] - b.v[i][j])], a.n)
  IN  IF a.known /\ b.known /\ IsSquare(sq(1)) /\ IsSquare(sq(2))
      THEN Known(ToArray(<<ISqrt(sq(1)), ISqrt(sq(2))>>))
      ELSE Unknown(2)

\* (leftcurve + rightcurve) / 2
Midpoints(a, b) ==
  IF a.known /\ b.known
  THEN Known([i \in DOMAIN a.v |-> <<(a.v[i][1] + b.v[i][1]) \div 2, (a.v[i][2] + b.v[i][2]) \div 2>>])
  ELSE Unknown(a.n)

\* center_from_sides_mean(left, right, npoints, nsamples, resample, with_width = True)
CenterFromSidesMean(a) ==
  LET p      == Prepare(a)
      center == Midpoints(p.leftcurve, p.rightcurve)
  IN  Returned("mean",
               IF p.npoints # p.nsamples THEN ResampleCurve(center, p.npoints) ELSE center,
               NormAlongColumns(p.leftcurve, p.rightcurve))

\* center_from_sides_projection(..., with_width = True, nneighbours = all):
\* the center line is resampled to npoints and width = np.zeros(npoints)
CenterFromSidesProjection(a) ==
  LET p == Prepare(a)
  IN  Returned("projection", ResampleCurve(Unknown(p.nsamples), p.npoints), Unknown(p.npoints))

\* the number of points of curve[il:ir] with il = max(0, i-nneighbours) and
\* ir = min(i+nneighbours, nsamples)
Window(i, nneighbours, nsamples) ==
  Max2(0, Min2(i + nneighbours, nsamples) - Max2(0, i - nneighbours))

\* the indices of curve[il:ir] for sample i
WindowIndices(i, nneighbours, nsamples) ==
  { j \in 0..(nsamples-1) : Max2(0, i - nneighbours) <= j /\ j < Min2(i + nneighbours, nsamples) }

\* numbers of neighbours tried
Neighbours == 1..2

\* center_from_sides_projection(..., with_width = True, nneighbours = k):
\* geom.LineString of fewer than two points raises; the width loop runs over
\* range(nsamples) on center and width of npoints entries
CenterFromSidesWindowed(a, nneighbours) ==
  LET p == Prepare(a)
  IN  IF \E i \in 0..(p.nsamples-1) : Window(i, nneighbours, p.nsamples) < 2
      THEN Raised("windowed", "LineStringError")
      ELSE IF p.nsamples > p.npoints
      THEN Raised("windowed", "IndexError")
      ELSE Returned("windowed", ResampleCurve(Unknown(p.nsamples), p.npoints), Unknown(p.npoints))

\* center_from_sides_vonroi(..., with_width = True)
CenterFromSidesVonroi(a) ==
  LET p == Prepare(a)
  IN  Returned("vonroi", ResampleCurve(Unknown(p.nsamples), p.npoints), Unknown(p.npoints))

\* what find_peaks returns: the pair (peak_ids, peak_values) that
\* shape_from_image unpacks, or the two-column array that
\* center_from_sides_erosion indexes
FindPeaksReturns == {"pair", "array"}

\* center_from_sides_erosion(..., with_width = True): peaks.shape of a pair
\* raises AttributeError; np.vstack([0, norm(left - right, axis = 0) + w, 0])
\* stacks rows of 1, 2 and 1 columns and raises ValueError
CenterFromSidesErosion(a, found) ==
  IF found = "pair" THEN Raised("erosion", "AttributeError")
  ELSE IF NormAlongColumns(Unknown(Prepare(a).npoints - 2), Unknown(Prepare(a).npoints - 2)).n # 1
  THEN Raised("erosion", "ValueError")
  ELSE Returned("erosion", ResampleCurve(Unknown(Prepare(a).npoints), Prepare(a).npoints),
                           Unknown(Prepare(a).npoints))

\* center_offset = 2 of center_from_sides_min_projection
CenterOffset == 2

\* the indices i of the pairs (leftcurve[i], rightcurve[i]) that make up
\* full_left and full_right when ul == ur at every step of the while loop,
\* as for parallel sides sampled alike: the first center_offset points,
\* those the loop appends while il < nsamples - center_offset - 1, and the
\* last center_offset points
PairedIndices(nsamples) ==
  [j \in 1..CenterOffset |-> j - 1]
    \o [j \in 1..Max2(0, nsamples - 2 * CenterOffset - 1) |-> CenterOffset + j - 1]
    \o [j \in 1..CenterOffset |-> nsamples - CenterOffset + j - 1]

\* np.linalg.norm(full_left - full_right, axis = 1) for the pairs above
NormOfPairs(leftcurve, rightcurve) ==
  LET idx == PairedIndices(leftcurve.n)
  IN  IF leftcurve.known /\ rightcurve.known
      THEN Known(ToArray([j \in 1..Len(idx) |->
                   Norm(<<leftcurve.v[idx[j]][1] - rightcurve.v[idx[j]][1],
                          leftcurve.v[idx[j]][2] - rightcurve.v[idx[j]][2]>>)]))
      ELSE NormAlongPoints(leftcurve, rightcurve)

\* resample_curve(width, npoints, smooth = 0): a constant profile stays the
\* constant it is, the values of any other are not followed
ResampleProfile(width, npoints) ==
  IF width.known /\ \A i, j \in DOMAIN width.v : width.v[i] = width.v[j]
  THEN Known([i \in 0..(npoints-1) |-> width.v[0]])
  ELSE ResampleCurve(width, npoints)

\* width = 0.5 * resample_curve(width, npoints, smooth = 0)
HalfProfile(width) ==
  IF width.known /\ \A i \in DOMAIN width.v : width.v[i] % 2 = 0
  THEN Known([i \in DOMAIN width.v |-> width.v[i] \div 2])
  ELSE Unknown(width.n)

\* center_from_sides_min_projection(..., with_width = True): the first
\* segment rightcurve[center_offset-1 : center_offset+1] needs two points
CenterFromSidesMinProjection(a) ==
  LET p == Prepare(a)
  IN  IF p.nsamples < CenterOffset + 1
      THEN Raised("min_projection", "LineStringError")
      ELSE Returned("min_projection", ResampleCurve(Unknown(p.nsamples), p.npoints),
                                      HalfProfile(ResampleProfile(NormOfPairs(p.leftcurve, p.rightcurve), p.npoints)))

\* center_from_sides(left, right, ..., with_width = True, method = method)
CenterFromSides(a, method) ==
  CASE method = "projection" -> CenterFromSidesProjection(a)
    [] method = "vonroi"     -> CenterFromSidesVonroi(a)
    [] OTHER                 -> CenterFromSidesMean(a)

CallMean ==
  /\ spc = "args"
  /\ sout' = CenterFromSides(sin, "mean")
  /\ spc' = "returned"
  /\ UNCHANGED <<sin, sback, restOfSides>>

CallProjection ==
  /\ spc = "args"
  /\ sout' = CenterFromSidesProjection(sin)
  /\ spc' = "returned"
  /\ UNCHANGED <<sin, sback, restOfSides>>

CallWindowed ==
  /\ spc = "args"
  /\ \E k \in Neighbours : sout' = [nneighbours |-> k] @@ CenterFromSidesWindowed(sin, k)
  /\ spc' = "returned"
  /\ UNCHANGED <<sin, sback, restOfSides>>

CallVonroi ==
  /\ spc = "args"
  /\ sout' = CenterFromSidesVonroi(sin)
  /\ spc' = "returned"
  /\ UNCHANGED <<sin, sback, restOfSides>>

CallErosion ==
  /\ spc = "args"
  /\ \E found \in FindPeaksReturns : sout' = CenterFromSidesErosion(sin, found)
  /\ spc' = "returned"
  /\ UNCHANGED <<sin, sback, restOfSides>>

CallMinProjection ==
  /\ spc = "args"
  /\ sout' = CenterFromSidesMinProjection(sin)
  /\ spc' = "returned"
  /\ UNCHANGED <<sin, sback, restOfSides>>

\* normals_from_theta_discrete(theta, orientation): the angle of each
\* segment plus a quarter turn, the last one repeated, the inner ones turned
\* back by half the bend (whole quarter turns on the lines followed here)
NormalsFromTheta(theta, orientation) ==
  LET nsamples == Size(theta) + 2
      den      == nsamples - 1
      n2       == (nsamples - 1) \div 2
      cum      == [i \in 0..(nsamples-2) |-> SumTo(theta, i) \div den]
      itheta   == [i \in DOMAIN cum |-> cum[i] + orientation - cum[n2]]
      angle(i) == IF i = 0 THEN itheta[0] + 1
                  ELSE IF i = nsamples - 1 THEN itheta[nsamples-2] + 1
                  ELSE itheta[i] + 1 - ((itheta[i] - itheta[i-1]) \div 2)
  IN  [i \in 0..(nsamples-1) |-> <<Cos(angle(i)), Sin(angle(i))>>]

\* normals_from_center_discrete(center)
NormalsFromCenter(center) ==
  NormalsFromTheta(ThetaFromCenter(center).theta, ThetaFromCenter(center).orientation)

\* resample_curve(width, npoints) on a width of known values: npoints
\* values, the first and the last kept, the inner ones among those given
ResampleWidth(width, npoints) ==
  { w \in [0..(npoints-1) -> { width[i] : i \in DOMAIN width }] :
      w[0] = width[0] /\ w[npoints-1] = width[Size(width)-1] }

\* shape_from_center_discrete(center, width) with the width profile w used
SidesFrom(center, w) ==
  LET normals == NormalsFromCenter(center)
  IN  [left  |-> Known([i \in DOMAIN center |->
                   <<center[i][1] + (w[i] * normals[i][1]) \div 2, center[i][2] + (w[i] * normals[i][2]) \div 2>>]),
       right |-> Known([i \in DOMAIN center |->
                   <<center[i][1] - (w[i] * normals[i][1]) \div 2, center[i][2] - (w[i] * normals[i][2]) \div 2>>])]

\* left, right = shape_from_center(center, width) on what the call returned
ShapeFromCenter ==
  /\ spc = "returned"
  /\ sout.exc = "none"
  /\ IF sout.center.known /\ sout.width.known
     THEN \E w \in (IF sout.width.n # sout.center.n
                    THEN ResampleWidth(sout.width.v, sout.center.n)
                    ELSE {sout.width.v}) :
            sback' = SidesFrom(sout.center.v, w)
     ELSE sback' = [left |-> Unknown(sout.center.n), right |-> Unknown(sout.center.n)]
  /\ spc' = "back"
  /\ UNCHANGED <<sin, sout, restOfSides>>

\* the strategies a caller may name
Methods == {"mean", "projection", "vonroi", "erosion"}

\* center_from_sides(left, right, ..., with_width = True, method = method)
\* for each strategy name; the name asked for is kept beside the result
CallCenterFromSides ==
  /\ spc = "args"
  /\ \E method \in Methods :
       sout' = [method |-> method] @@ CenterFromSides(sin, method)
  /\ spc' = "dispatched"
  /\ UNCHANGED <<sin, sback, restOfSides>>

SidesNext ==
  \/ CallCenterFromSides
  \/ CallMean
  \/ CallProjection
  \/ CallWindowed
  \/ CallVonroi
  \/ CallErosion
  \/ CallMinProjection
  \/ ShapeFromCenter

---------------------------------------------------------------------------
(* center_from_theta called with npoints, nsamples and resample            *)
(* (geometry.py:715-780; center_from_theta = center_from_theta_discrete,   *)
(* line 850)                                                               *)

\* largest number of angles in theta
MaxTheta == 3

\* theta of nt angles on a mesh of nt + 2 points: bends of a quarter turn
\* to either side or none, scaled by nsamples - 1 = nt + 1 as
\* theta_from_center_discrete scales them
Thetas ==
  UNION { [0..(nt-1) -> { b * (nt + 1) : b \in {-1, 0, 1} }] : nt \in 1..MaxTheta }

CallArgs ==
  { [theta |-> th, orientation |-> o, xy |-> <<0, 0>>, length |-> 1,
     npoints |-> np, nsamples |-> ns, resample |-> rs] :
      th \in Thetas, o \in {0, 1}, np \in Counts,
      ns \in { c \in Counts : c.all \/ c.n >= 3 }, rs \in BOOLEAN }

CallInit ==
  /\ cpc = "args"
  /\ cargs \in CallArgs
  /\ cret = << >>

\* the center line returned as built, with no final resampling
PointsBuilt(nt, npoints, nsamples, resample) == nsamples

\* the number of points of the returned center line: the center line is
\* built on nsamples points (nt + 2 by default) and resampled to npoints
\* (nt + 2 by default) when the two differ or resample is set
PointsReturned(nt, npoints, nsamples, resample) ==
  IF npoints # nsamples \/ resample THEN npoints ELSE nsamples

\* center_from_theta_discrete(theta, orientation, xy, length, npoints,
\* nsamples, resample): no length of theta is refused
CenterFromThetaCall(a) ==
  LET nt       == Size(a.theta)
      npoints  == IF a.npoints.all THEN nt + 2 ELSE a.npoints.n
      nsamples == IF a.nsamples.all THEN nt + 2 ELSE a.nsamples.n
      followed == nsamples = nt + 2 /\ ~a.resample /\ npoints = nsamples
  IN  [exc       |-> "none",
       n         |-> PointsReturned(nt, npoints, nsamples, a.resample),
       resampled |-> npoints # nsamples \/ a.resample,
       center    |-> IF followed
                     THEN CenterFromTheta(a.theta, a.orientation, a.xy, a.length)
                     ELSE [den |-> 1, num |-> EmptyArray]]

CallCenterFromTheta ==
  /\ cpc = "args"
  /\ cret' = CenterFromThetaCall(cargs)
  /\ cpc' = "returned"
  /\ UNCHANGED <<cargs, restOfCall>>

\* the arrays a shape function builds, each under the name of the local
\* that holds it, all of as many rows as the center line
ShapeArrays(n) ==
  [center  |-> [name |-> "center",  n |-> n],
   left    |-> [name |-> "left",    n |-> n],
   right   |-> [name |-> "right",   n |-> n],
   normals |-> [name |-> "normals", n |-> n]]

\* shape_from_theta_discrete: center and normals from
\* center_from_theta_discrete, left = center + 0.5 * w * normals, right =
\* center - 0.5 * w * normals; return left, right, center[, normals]
ShapeFromThetaDiscrete(a, with_normals) ==
  LET s == ShapeArrays(CenterFromThetaCall(a).n)
  IN  IF with_normals THEN <<s.left, s.right, s.center, s.normals>>
                      ELSE <<s.left, s.right, s.center>>

\* center_from_theta_spline returns npoints points (nt + 2 by default)
SplinePoints(a) == IF a.npoints.all THEN Size(a.theta) + 2 ELSE a.npoints.n

\* shape_from_theta_spline: the same with center_from_theta_spline;
\* return center, left, right[, normals]
ShapeFromThetaSpline(a, with_normals) ==
  LET s == ShapeArrays(SplinePoints(a))
  IN  IF with_normals THEN <<s.center, s.left, s.right, s.normals>>
                      ELSE <<s.center, s.left, s.right>>

CallShapeFromThetaDiscrete ==
  /\ cpc = "args"
  /\ \E with_normals \in BOOLEAN :
       cret' = [fn |-> "discrete", with_normals |-> with_normals,
                out |-> ShapeFromThetaDiscrete(cargs, with_normals)]
  /\ cpc' = "shape"
  /\ UNCHANGED <<cargs, restOfCall>>

CallShapeFromThetaSpline ==
  /\ cpc = "args"
  /\ \E with_normals \in BOOLEAN :
       cret' = [fn |-> "spline", with_normals |-> with_normals,
                out |-> ShapeFromThetaSpline(cargs, with_normals)]
  /\ cpc' = "shape"
  /\ UNCHANGED <<cargs, restOfCall>>

\* test_theta: center, left, right = sh.shape_from_theta(th, width, ...,
\* with_normals = False), with shape_from_theta = shape_from_theta_discrete
\* (line 1004); the three names are then plotted as center, left and right
TestTheta ==
  /\ cpc = "args"
  /\ LET out == ShapeFromThetaDiscrete(cargs, FALSE)
     IN  cret' = [fn |-> "discrete", with_normals |-> FALSE, out |-> out,
                  center |-> out[1], left |-> out[2], right |-> out[3]]
  /\ cpc' = "unpacked"
  /\ UNCHANGED <<cargs, restOfCall>>

CallNext ==
  \/ CallCenterFromTheta
  \/ CallShapeFromThetaDiscrete
  \/ CallShapeFromThetaSpline
  \/ TestTheta

---------------------------------------------------------------------------
(* The WormModel class (model.py:36-609)                                   *)
(*                                                                         *)
(* The attributes are a record.  center is an array record whose points    *)
(* are exact fractions v[i] / den; width is an array record of numbers.    *)

\* largest number of points of a worm
MaxWormPoints == 4

WormPoints == 3..MaxWormPoints
WormXYs == { <<0, 0>>, <<2, 1>> }
WormLengths == {1, 4}

\* center arguments: None, or a straight line of n points along x or y
NoCenter == [given |-> FALSE, v |-> EmptyArray]
CenterArgs ==
  {NoCenter} \cup { [given |-> TRUE, v |-> SideLine(n, dir, 0)] : n \in WormPoints, dir \in {0, 1} }

\* width arguments: None, or a profile of n samples
NoWidth == [given |-> FALSE, v |-> EmptyArray]
WidthArgs ==
  {NoWidth} \cup { [given |-> TRUE, v |-> [i \in 0..(n-1) |-> 2]] : n \in WormPoints }

\* np.vstack([np.linspace(0, 1, npoints), np.zeros(npoints)]).T + xy, as
\* fractions over npoints - 1
DefaultCenter(npoints, xy) ==
  [i \in 0..(npoints-1) |-> <<i + (npoints - 1) * xy[1], (npoints - 1) * xy[2]>>]

\* a number held as such, and a slice of an array holding numbers
Scalar(x) == [scalar |-> TRUE, v |-> ToArray(<<x>>)]
Sliced(a) == [scalar |-> FALSE, v |-> a]

\* wormgeo.default_width(npoints): npoints samples of the default profile
DefaultWidth(npoints) == Unknown(npoints)

\* WormModel(center, width, xy, length, npoints): the attributes, and the
\* ValueError raised when width and center line differ in length
NewWorm(center, width, xy, length, npoints) ==
  LET c  == IF center.given THEN Known(center.v) ELSE Known(DefaultCenter(npoints, xy))
      n  == c.n
      w  == IF width.given THEN Known(width.v) ELSE DefaultWidth(n)
  IN  [exc        |-> IF n # w.n THEN "ValueError" ELSE "none",
       center     |-> c,
       den        |-> IF center.given THEN 1 ELSE npoints - 1,
       width      |-> w,
       xy         |-> xy,
       length     |-> Scalar(length),
       speed      |-> Scalar(0),
       npoints    |-> n,
       nparameter |-> 2 * n]

NoCall == [op |-> "none", exc |-> "none"]

WormInit ==
  /\ wpc = "new"
  /\ worm = << >>
  /\ wcall = NoCall
  /\ wops = 0

\* w = WormModel(center, width, xy, length, npoints)
Construct ==
  /\ wpc = "new"
  /\ \E center \in CenterArgs, width \in WidthArgs, xy \in WormXYs,
        length \in WormLengths, npoints \in WormPoints :
       LET w == NewWorm(center, width, xy, length, npoints)
       IN  /\ worm' = w
           /\ wpc' = IF w.exc = "none" THEN "live" ELSE "failed"
           /\ wcall' = [op |-> "init", exc |-> w.exc, center |-> center, width |-> width,
                        xy |-> xy, length |-> length, npoints |-> npoints]
  /\ UNCHANGED <<wops, restOfWorm>>

\* most method calls made on one object
MaxOps == 2

\* the common part of a method call: the object is alive, the call is counted
Calling ==
  /\ wpc = "live"
  /\ wops < MaxOps
  /\ wops' = wops + 1
  /\ wpc' = wpc

\* array.flatten() of an n x 2 array: x0, y0, x1, y1, ...
Flatten(v) ==
  [k \in 0..(2 * Size(v) - 1) |-> v[k \div 2][(k % 2) + 1]]

\* np.reshape(flat, (npoints, 2))
Reshape(flat, npoints) ==
  [i \in 0..(npoints-1) |-> <<flat[2 * i], flat[2 * i + 1]>>]

\* np.hstack of two 1-d arrays
HStack(a, b) ==
  [k \in 0..(Size(a) + Size(b) - 1) |-> IF k < Size(a) THEN a[k] ELSE b[k - Size(a)]]

\* a[istr:iend] on a 1-d array of n entries
Slice(a, istr, iend) ==
  [k \in 0..(Max2(0, Min2(iend, Size(a)) - Min2(istr, Size(a))) - 1) |-> a[istr + k]]

\* get_parameter(full): the flattened center line, followed by length,
\* speed and width when full.  The coordinates are fractions over den.
GetParameterOf(w, full) ==
  LET n == IF full THEN 2 * w.center.n + Size(w.length.v) + Size(w.speed.v) + w.width.n
           ELSE 2 * w.center.n
  IN  IF ~w.center.known \/ (full /\ ~w.width.known)
      THEN [n |-> n, known |-> FALSE, den |-> w.den, v |-> EmptyArray]
      ELSE [n |-> n, known |-> TRUE, den |-> w.den,
            v |-> IF full
                  THEN HStack(Flatten(w.center.v),
                              HStack(HStack(w.length.v, w.speed.v), w.width.v))
                  ELSE Flatten(w.center.v)]

\* par = w.get_parameter(full)
GetParameter ==
  /\ Calling
  /\ \E full \in BOOLEAN :
       wcall' = [op |-> "get_parameter", exc |-> "none", full |-> full, before |-> worm,
                 par |-> GetParameterOf(worm, full)]
  /\ UNCHANGED <<worm, restOfWorm>>

\* self.width.nparameter (model.py:119): width is a numpy array wherever it
\* is assigned (lines 75-79, 180, 209) and has no such attribute
HasNParameter(width) == FALSE

\* set_parameter(parameter): the attributes after the call and the exception
\* that ended it
SetParameterOf(w, par) ==
  LET iend  == 2 * w.npoints
      short == par.n < iend
      c     == IF short THEN w.center
               ELSE IF par.known THEN Known(Reshape(Slice(par.v, 0, iend), w.npoints))
               ELSE Unknown(w.npoints)
      more  == par.n > w.nparameter
      w1    == [w EXCEPT !.center = c, !.den = IF short THEN w.den ELSE par.den]
      w2    == IF more /\ par.known
               THEN [w1 EXCEPT !.length = Sliced(Slice(par.v, iend, iend + 1)),
                               !.speed  = Sliced(Slice(par.v, iend + 1, iend + 2))]
               ELSE w1
  IN  IF short THEN [w EXCEPT !.exc = "ValueError"]
      ELSE IF ~more THEN w1
      ELSE IF ~HasNParameter(w.width) THEN [w2 EXCEPT !.exc = "AttributeError"]
      ELSE w2

\* the parameter vectors handed to set_parameter: what get_parameter just
\* returned, or the vector 1, 2, ..., m of 2n or 3n + 2 entries
Ramp(m) == [n |-> m, known |-> TRUE, den |-> 1, v |-> [k \in 0..(m-1) |-> k + 1]]

ParameterArgs(w) ==
  { GetParameterOf(w, TRUE), GetParameterOf(w, FALSE),
    Ramp(2 * w.npoints), Ramp(3 * w.npoints + 2) }

\* w.set_parameter(par)
SetParameter ==
  /\ Calling
  /\ \E par \in ParameterArgs(worm) :
       LET w == SetParameterOf(worm, par)
       IN  /\ worm' = [w EXCEPT !.exc = "none"]
           /\ wcall' = [op |-> "set_parameter", exc |-> w.exc, par |-> par, before |-> worm]
  /\ UNCHANGED restOfWorm

\* w.from_center(center, width): center and, when given, width are stored;
\* npoints, nparameter and length keep their values
FromCenter ==
  /\ Calling
  /\ \E center \in CenterArgs \ {NoCenter}, width \in WidthArgs :
       /\ worm' = [worm EXCEPT !.center = Known(center.v), !.den = 1,
                               !.width = IF width.given THEN Known(width.v) ELSE @]
       /\ wcall' = [op |-> "from_center", exc |-> "none", center |-> center, width |-> width,
                    before |-> worm]
  /\ UNCHANGED restOfWorm

\* the functions of worm.geometry whose names begin with center_from_sides
CenterFromSidesNames ==
  {"center_from_sides", "center_from_sides_vonroi", "center_from_sides_projection",
   "center_from_sides_min_projection", "center_from_sides_mean", "center_from_sides_erosion"}

\* w.from_shape(left, right, center, width): with center or width missing it
\* looks up wormgeo.center_from_sides_discrete; with both given, cw is read
\* unassigned
FromShape ==
  /\ Calling
  /\ \E center \in {NoCenter, [given |-> TRUE, v |-> SideLine(worm.npoints, 0, 0)]},
        width \in {NoWidth, [given |-> TRUE, v |-> [i \in 0..(worm.npoints-1) |-> 2]]} :
       wcall' = [op |-> "from_shape", center |-> center, width |-> width, before |-> worm,
                 exc |-> IF ~center.given \/ ~width.given
                         THEN IF "center_from_sides_discrete" \in CenterFromSidesNames
                              THEN "none" ELSE "AttributeError"
                         ELSE "UnboundLocalError"]
  /\ UNCHANGED <<worm, restOfWorm>>

\* the parameters of wormgeo.shape_from_image (geometry.py:1273-1278)
ShapeFromImageParameters ==
  {"image", "sigma", "absolute_threshold", "threshold_factor", "ncontour", "delta",
   "smooth_head_tail", "smooth_left_right", "smooth_center", "npoints", "center_offset",
   "threshold_reduce", "contour_hint", "size_hint", "delta_reduce", "head_tail_hint",
   "verbose", "save"}

\* the keywords from_image passes to it (model.py:217-222)
FromImageKeywords ==
  {"sigma", "absolute_threshold", "threshold_factor", "ncontour", "delta", "smooth",
   "nneighbours", "npoints", "verbose", "save"}

\* what shape_from_image finds in the image: nothing (status -1), or a worm
\* with its center line and width
Detections ==
  { [status |-> StatusFailed, center |-> SideLine(n, 0, 0), width |-> [i \in 0..(n-1) |-> 0]] :
      n \in WormPoints }
  \cup
  { [status |-> StatusSingleContour + StatusTwoHighest, center |-> SideLine(n, dir, 0),
     width |-> [i \in 0..(n-1) |-> 2]] : n \in WormPoints, dir \in {0, 1} }

\* wormgeo.length_from_center_discrete(center), for points v / den
LengthFromCenter(v, den) ==
  SumTo([i \in DOMAIN Diff(v) |-> Norm(Diff(v)[i])], Size(v) - 1) \div den

\* w.from_image(image): the call of shape_from_image with keywords it does
\* not take raises TypeError; otherwise a true status (any but 0) stores
\* center and width and sets the length, and status 0 raises RuntimeWarning
FromImageOf(w, found) ==
  IF ~(FromImageKeywords \subseteq ShapeFromImageParameters)
  THEN [w EXCEPT !.exc = "TypeError"]
  ELSE IF found.status # 0
  THEN [w EXCEPT !.center = Known(found.center), !.den = 1, !.width = Known(found.width),
                 !.length = Scalar(LengthFromCenter(found.center, 1))]
  ELSE [w EXCEPT !.exc = "RuntimeWarning"]

FromImage ==
  /\ Calling
  /\ \E found \in Detections :
       LET w == FromImageOf(worm, found)
       IN  /\ worm' = [w EXCEPT !.exc = "none"]
           /\ wcall' = [op |-> "from_image", exc |-> w.exc, found |-> found, before |-> worm]
  /\ UNCHANGED restOfWorm

\* the motions leave a record of the call and the attributes before it
Moved(op, w) == [op |-> op, exc |-> w.exc, before |-> worm]

\* what a method does to center when it goes through splines or Fourier
\* transforms: n points whose values are not followed
Reshaped(w, n) == [w EXCEPT !.center = Unknown(n)]

\* w.translate(xy): self.center += xy
Translate ==
  /\ Calling
  /\ \E xy \in WormXYs \ {<<0, 0>>} :
       /\ worm' = IF worm.center.known
                  THEN [worm EXCEPT !.center = Known([i \in DOMAIN worm.center.v |->
                          <<worm.center.v[i][1] + worm.den * xy[1],
                            worm.center.v[i][2] + worm.den * xy[2]>>])]
                  ELSE worm
       /\ wcall' = Moved("translate", worm)
  /\ UNCHANGED restOfWorm

\* wormgeo.rotate_center_discrete(center, rad, pos), rad in quarter turns
RotateCenter(v, den, rad, pos) ==
  [i \in DOMAIN v |->
     LET x == v[i][1] - den * pos[1]
         y == v[i][2] - den * pos[2]
     IN  <<x * Cos(rad) - y * Sin(rad) + den * pos[1],
           x * Sin(rad) + y * Cos(rad) + den * pos[2]>>]

\* w.rotate(angle, center)
Rotate ==
  /\ Calling
  /\ \E rad \in {1, 2}, pos \in {<<2, 1>>} :
       /\ worm' = IF worm.center.known
                  THEN [worm EXCEPT !.center = Known(RotateCenter(worm.center.v, worm.den, rad, pos))]
                  ELSE worm
       /\ wcall' = Moved("rotate", worm)
  /\ UNCHANGED restOfWorm

\* twice wormgeo.center_of_center_discrete(center): the middle point, or
\* the sum of the two middle points
TwiceCenterOfCenter(v) ==
  LET n  == Size(v)
      n2 == n \div 2
  IN  IF n % 2 = 0
      THEN <<v[n2-1][1] + v[n2][1], v[n2-1][2] + v[n2][2]>>
      ELSE <<2 * v[n2][1], 2 * v[n2][2]>>

\* factor * (center - p0) + p0 with p0 = self.center_point(), in halves of
\* 1 / den
StretchOf(w, factor) ==
  IF w.center.known
  THEN LET p0 == TwiceCenterOfCenter(w.center.v)
       IN  [w EXCEPT
              !.den = 2 * w.den,
              !.center = Known([i \in DOMAIN w.center.v |->
                 <<factor * (2 * w.center.v[i][1] - p0[1]) + p0[1],
                   factor * (2 * w.center.v[i][2] - p0[2]) + p0[2]>>])]
  ELSE w

Factors == {2}

\* w.stretch(factor)
Stretch ==
  /\ Calling
  /\ \E factor \in Factors :
       /\ worm' = StretchOf(worm, factor)
       /\ wcall' = Moved("stretch", worm)
  /\ UNCHANGED restOfWorm

\* self.width.multiply (model.py:540): width is a numpy array wherever it
\* is assigned (lines 75-79, 180, 209); numpy arrays have no method multiply
HasMultiply(width) == FALSE

\* self.width.multiply(factor): the width after the call and the exception
WidenOf(w, factor) ==
  IF HasMultiply(w.width)
  THEN [w EXCEPT !.width = IF w.width.known
                           THEN Known([i \in DOMAIN w.width.v |-> factor * w.width.v[i]])
                           ELSE w.width]
  ELSE [w EXCEPT !.exc = "AttributeError"]

\* w.widen(factor)
Widen ==
  /\ Calling
  /\ \E factor \in Factors :
       LET w == WidenOf(worm, factor)
       IN  /\ worm' = [w EXCEPT !.exc = "none"]
           /\ wcall' = [op |-> "widen", exc |-> w.exc, factor |-> factor, before |-> worm]
  /\ UNCHANGED restOfWorm

\* w.scale(factor): self.stretch(factor); self.widen(factor)
Scale ==
  /\ Calling
  /\ \E factor \in Factors :
       LET w == WidenOf(StretchOf(worm, factor), factor)
       IN  /\ worm' = [w EXCEPT !.exc = "none"]
           /\ wcall' = [op |-> "scale", exc |-> w.exc, factor |-> factor, before |-> worm]
  /\ UNCHANGED restOfWorm

\* w.move_forward(distance): splev at the shifted parameters of the center
\* line's own points, as many points as before
MoveForward ==
  /\ Calling
  /\ worm' = Reshaped(worm, worm.center.n)
  /\ wcall' = Moved("move_forward", worm)
  /\ UNCHANGED restOfWorm

\* w.bend(bend, exponent, head): theta has n - 2 angles, n2 = that // 2 and
\* m = n2 - 1 of them are changed.  np.linspace(0, 1, m) raises for m < 0;
\* for m = 0 the tail slice theta[-0:] is all of theta and cannot take an
\* empty array.  The center line is rebuilt on n points.
BendOf(w, head) ==
  LET nt == w.center.n - 2
      m  == (nt \div 2) - 1
  IN  IF m < 0 THEN [w EXCEPT !.exc = "ValueError"]
      ELSE IF ~head /\ m = 0 THEN [w EXCEPT !.exc = "ValueError"]
      ELSE Reshaped(w, nt + 2)

Bend ==
  /\ Calling
  /\ \E head \in BOOLEAN :
       LET w == BendOf(worm, head)
       IN  /\ worm' = [w EXCEPT !.exc = "none"]
           /\ wcall' = [op |-> "bend", exc |-> w.exc, head |-> head, before |-> worm]
  /\ UNCHANGED restOfWorm

\* w.curve(mode_amplitudes): theta goes through np.fft.rfft and back through
\* np.fft.irfft(t, n = self.npoints - 2); the center line is rebuilt on
\* self.npoints points
Curve ==
  /\ Calling
  /\ worm' = Reshaped(worm, (worm.npoints - 2) + 2)
  /\ wcall' = Moved("curve", worm)
  /\ UNCHANGED restOfWorm

\* w.swith_head_tail(): self.center = self.center[::-1, :]
SwitchHeadTail ==
  /\ Calling
  /\ worm' = IF worm.center.known
             THEN [worm EXCEPT !.center = Known([i \in DOMAIN worm.center.v |->
                                            worm.center.v[worm.center.n - 1 - i]])]
             ELSE worm
  /\ wcall' = Moved("swith_head_tail", worm)
  /\ UNCHANGED restOfWorm

WormNext ==
  \/ Construct
  \/ GetParameter
  \/ SetParameter
  \/ FromCenter
  \/ FromShape
  \/ FromImage
  \/ Translate
  \/ Rotate
  \/ Stretch
  \/ Widen
  \/ Scale
  \/ MoveForward
  \/ Bend
  \/ Curve
  \/ SwitchHeadTail

---------------------------------------------------------------------------
(* distance_shape_to_contour_discrete (geometry.py:2031-2213)              *)
(* contour.intersections and contour.normals belong to the interpolation   *)
(* package, which is not followed: each call of contour.intersections      *)
(* returns a list of intersections drawn from HitLists. An intersection    *)
(* is [xy, d, cn]: its point, its distance to the boundary sample and the  *)
(* dot product of the contour normal at it with normals[i]. The hint       *)
(* points and the two end points lie on the x axis, so that their          *)
(* distances are whole numbers.                                            *)

\* largest number of boundary samples each loop processes
MaxSamples == 2

\* largest number of head/tail hint points
MaxHints == 2

Hit(xy, d, cn) == [xy |-> xy, d |-> d, cn |-> cn]

\* the lists contour.intersections returns for one search segment
HitLists ==
  { << >>,
    << Hit(<<1, 0>>, 1, 1) >>,
    << Hit(<<2, 1>>, 2, -1), Hit(<<1, 1>>, 1, 0) >>,
    << Hit(<<3, 0>>, 3, 1), Hit(<<1, 2>>, 1, -1), Hit(<<1, 3>>, 1, -1) >> }

\* np.nan, a number, and a row of two np.nan
NaN == [nan |-> TRUE, v |-> 0]
Num(x) == [nan |-> FALSE, v |-> x]
NaNPoint == [nan |-> TRUE, v |-> <<0, 0>>]

\* None, and an index into match_head_tail
NoMatch == [none |-> TRUE, i |-> 0]
Match(i) == [none |-> FALSE, i |-> i]

\* min_alignment: None or a threshold on the dot product
MinAlignments ==
  { [given |-> FALSE, value |-> 0], [given |-> TRUE, value |-> 0],
    [given |-> TRUE, value |-> 1] }

\* the arguments: npts samples are processed (the shape has npts + 2 points
\* when match_head_tail is given, as left[1:-1] drops the two ends)
DistArgs ==
  [npts : 0..MaxSamples, min_alignment : MinAlignments, match : BOOLEAN]

\* the head (left[0]), the tail (left[-1]) and the hint points
EndPoints == { <<<<0, 0>>, <<1, 0>>>>, <<<<1, 0>>, <<1, 0>>>>,
               <<<<1, 0>>, <<3, 0>>>>, <<<<3, 0>>, <<0, 0>>>> }
HintPoints == { <<2, 0>>, <<3, 0>> }
HintLists == UNION { [1..k -> HintPoints] : k \in 0..MaxHints }

\* head_match, tail_match and their distances before they are assigned
NoEnds ==
  [set |-> FALSE, distance_head |-> NaN, head_match |-> NoMatch,
   distance_tail |-> NaN, tail_match |-> NoMatch]

\* np.zeros(npts), np.zeros((npts, 2)) for both sides
DistInit ==
  /\ dpc = "left"
  /\ din \in DistArgs
  /\ di = 0
  /\ dout = [distances_left         |-> [i \in 0..(din.npts-1) |-> Num(0)],
             intersection_pts_left  |-> [i \in 0..(din.npts-1) |-> Num(<<0, 0>>)],
             distances_right        |-> [i \in 0..(din.npts-1) |-> Num(0)],
             intersection_pts_right |-> [i \in 0..(din.npts-1) |-> Num(<<0, 0>>)],
             ends                   |-> NoEnds]
  /\ dstep = [side |-> "none"]

\* an alignment test that refuses the threshold itself
AlignedAbove(hits, sign, min_alignment) ==
  [k \in DOMAIN hits |-> sign * hits[k].cn > min_alignment.value]

\* algnmt = np.dot(cntnrmls, normals[i]) (left) or np.dot(cntnrmls,
\* -normals[i]) (right); aligned = algnmt >= min_alignment
Aligned(hits, sign, min_alignment) ==
  [k \in DOMAIN hits |-> sign * hits[k].cn >= min_alignment.value]

\* the body of one loop iteration: distances_*[i] and intersection_pts_*[i]
SampleResult(hits, sign, min_alignment) ==
  LET n       == Size(hits)
      aligned == Aligned(hits, sign, min_alignment)
      kept    == IF min_alignment.given THEN ToArray(Filter(hits, aligned, n)) ELSE hits
      dd      == [k \in DOMAIN kept |-> kept[k].d]
      minidx  == ArgMin(dd, Size(kept))
  IN  IF n = 0 \/ (min_alignment.given /\ ~(\E k \in DOMAIN hits : aligned[k]))
      THEN [distance |-> NaN, pt |-> NaNPoint]
      ELSE [distance |-> Num(dd[minidx]), pt |-> Num(kept[minidx].xy)]

\* one iteration of the loop over the left side (geometry.py:2073-2108)
LeftSample ==
  /\ dpc = "left"
  /\ di < din.npts
  /\ \E hits \in HitLists :
       LET r == SampleResult(ToArray(hits), 1, din.min_alignment)
       IN  /\ dout' = [dout EXCEPT !.distances_left[di] = r.distance,
                                   !.intersection_pts_left[di] = r.pt]
           /\ dstep' = [side |-> "left", i |-> di, hits |-> hits, before |-> dout]
  /\ di' = di + 1
  /\ UNCHANGED <<dpc, din, restOfDist>>

\* the left loop is over, the right one starts (geometry.py:2111)
LeftDone ==
  /\ dpc = "left"
  /\ di = din.npts
  /\ dpc' = "right"
  /\ di' = 0
  /\ dstep' = [side |-> "none"]
  /\ UNCHANGED <<din, dout, restOfDist>>

\* one iteration of the loop over the right side (geometry.py:2111-2148)
RightSample ==
  /\ dpc = "right"
  /\ di < din.npts
  /\ \E hits \in HitLists :
       LET r == SampleResult(ToArray(hits), -1, din.min_alignment)
       IN  /\ dout' = [dout EXCEPT !.distances_right[di] = r.distance,
                                   !.intersection_pts_right[di] = r.pt]
           /\ dstep' = [side |-> "right", i |-> di, hits |-> hits, before |-> dout]
  /\ di' = di + 1
  /\ UNCHANGED <<dpc, din, restOfDist>>

\* the right loop is over (geometry.py:2150)
RightDone ==
  /\ dpc = "right"
  /\ di = din.npts
  /\ dpc' = "ends"
  /\ dstep' = [side |-> "none"]
  /\ UNCHANGED <<din, di, dout, restOfDist>>

\* np.linalg.norm(end - match_head_tail, axis = 1)
DistsTo(end, match_head_tail) ==
  [j \in DOMAIN match_head_tail |->
     Norm(<<end[1] - match_head_tail[j][1], end[2] - match_head_tail[j][2]>>)]

\* dists.max()
ArrayMax(dists) ==
  CHOOSE m \in { dists[j] : j \in DOMAIN dists } : \A j \in DOMAIN dists : dists[j] <= m

\* the taken hint point left in the running
KnockoutNone(dists, taken) == dists

\* dists[taken] = dists.max() + 1
Knockout(dists, taken) == [dists EXCEPT ![taken] = ArrayMax(dists) + 1]

\* geometry.py:2150-2181
MatchHeadTail(head, tail, match_head_tail) ==
  LET k          == Size(match_head_tail)
      dists_head == DistsTo(head, match_head_tail)
      dists_tail == DistsTo(tail, match_head_tail)
      head_match == ArgMin(dists_head, k)
      tail_match == ArgMin(dists_tail, k)
      first      == [set |-> TRUE,
                     distance_head |-> Num(dists_head[head_match]),
                     head_match    |-> Match(head_match),
                     distance_tail |-> Num(dists_tail[tail_match]),
                     tail_match    |-> Match(tail_match)]
      tail_next  == ArgMin(Knockout(dists_tail, tail_match), k)
      head_next  == ArgMin(Knockout(dists_head, head_match), k)
  IN  IF k = 0
      THEN [NoEnds EXCEPT !.set = TRUE]
      ELSE IF head_match # tail_match
      THEN first
      ELSE IF dists_head[head_match] <= dists_tail[tail_match]
      THEN IF k <= 1
           THEN [first EXCEPT !.distance_tail = NaN, !.tail_match = NoMatch]
           ELSE [first EXCEPT
                   !.distance_tail = Num(Knockout(dists_tail, tail_match)[tail_next]),
                   !.tail_match = Match(tail_next)]
      ELSE IF k <= 1
           THEN [first EXCEPT !.distance_head = NaN, !.head_match = NoMatch]
           \* line 2176 assigns dists_head, not distance_head, which keeps
           \* the distance to the first match
           ELSE [first EXCEPT !.head_match = Match(head_next)]

\* match_head_tail is given: head and tail are matched, the call returns
MatchEnds ==
  /\ dpc = "ends"
  /\ din.match
  /\ \E ends \in EndPoints, hints \in HintLists :
       /\ dout' = [dout EXCEPT !.ends = MatchHeadTail(ends[1], ends[2], ToArray(hints))]
       /\ dstep' = [side |-> "ends", head |-> ends[1], tail |-> ends[2],
                    hints |-> hints, before |-> dout]
  /\ dpc' = "returned"
  /\ UNCHANGED <<din, di, restOfDist>>

\* match_head_tail is None: the four arrays are returned
ReturnDistances ==
  /\ dpc = "ends"
  /\ ~din.match
  /\ dpc' = "returned"
  /\ UNCHANGED <<din, di, dout, dstep, restOfDist>>

DistNext ==
  \/ LeftSample
  \/ LeftDone
  \/ RightSample
  \/ RightDone
  \/ MatchEnds
  \/ ReturnDistances

---------------------------------------------------------------------------
(* The erosion loop of center_from_sides_erosion (geometry.py:422-437)     *)
(* Polygons are numbered: 0 is poly, j is the polygon the j-th call of     *)
(* buffer returned. shapely is not followed: whether the boundary of an    *)
(* eroded polygon is a LineString is drawn at each call. erode counts in   *)
(* units of its own, w in the same units.                                  *)

\* largest maxiter
MaxIter == 5

Erodes == {1, 2, 3}

ErodeArgs == [erode : Erodes, maxiter : 0..MaxIter]

\* last = poly; w = 0
ErodeInit ==
  /\ epc = "loop"
  /\ ein \in ErodeArgs
  /\ eloop = [i |-> 0, last |-> 0, new |-> 0, w |-> 0, calls |-> << >>, used |-> 0]

\* the offset left as it was
OffsetKept(w, erode) == w

\* w += erode
OffsetAfter(w, erode) == w + erode

\* new = last.buffer(-erode) has a LineString boundary: last = new; w += erode
Erode ==
  /\ epc = "loop"
  /\ eloop.i < ein.maxiter
  /\ LET new == Len(eloop.calls) + 1
     IN  eloop' = [eloop EXCEPT !.i = @ + 1,
                                !.new = new,
                                !.last = new,
                                !.w = OffsetAfter(@, ein.erode),
                                !.calls = Append(@, TRUE)]
  /\ UNCHANGED <<epc, ein, restOfErode>>

\* the boundary of new is no LineString: new = last; break
ErodeBreak ==
  /\ epc = "loop"
  /\ eloop.i < ein.maxiter
  /\ eloop' = [eloop EXCEPT !.new = eloop.last,
                            !.calls = Append(@, FALSE)]
  /\ epc' = "broken"
  /\ UNCHANGED <<ein, restOfErode>>

\* range(maxiter) is used up
ErodeExhausted ==
  /\ epc = "loop"
  /\ eloop.i = ein.maxiter
  /\ epc' = "exhausted"
  /\ UNCHANGED <<ein, eloop, restOfErode>>

\* x, y = last.boundary.xy
TakeBoundary ==
  /\ epc \in {"broken", "exhausted"}
  /\ eloop' = [eloop EXCEPT !.used = eloop.last]
  /\ epc' = "taken"
  /\ UNCHANGED <<ein, restOfErode>>

ErodeNext ==
  \/ Erode
  \/ ErodeBreak
  \/ ErodeExhausted
  \/ TakeBoundary

---------------------------------------------------------------------------
(* The pairing loop of center_from_sides_min_projection                    *)
(* (geometry.py:279-321). full_left and full_right are kept as the         *)
(* sequences of the indices of the boundary samples they hold, with        *)
(* Interpolated for a point that leftline.interpolate or                   *)
(* rightline.interpolate made. shapely is not followed: which of ul == ur, *)
(* ul < ur and the rest holds is drawn at each iteration, as it depends on *)
(* the coordinates of the two sides.                                       *)

\* most samples of a side
MaxPairSamples == 8

\* largest center_offset
MaxOffset == 2

\* an entry of full_left or full_right that is no boundary sample
Interpolated == -1

PairArgs == [nsamples : 1..MaxPairSamples, center_offset : 1..MaxOffset]

PairInit ==
  /\ ppc = "start"
  /\ pin \in PairArgs
  /\ ploop = << >>

\* [leftcurve[i] for i in range(center_offset)]
FirstPoints(center_offset) == [j \in 1..center_offset |-> j - 1]

\* [leftcurve[i] for i in range(-center_offset, 0)]
LastPoints(nsamples, center_offset) ==
  [j \in 1..center_offset |-> nsamples - center_offset + j - 1]

\* lines 280-289: the first points, the first two lines, il = ir =
\* center_offset and the two points read at that index
PairEnter ==
  /\ ppc = "start"
  /\ pin.nsamples >= pin.center_offset + 1
  /\ ploop' = [il |-> pin.center_offset, ir |-> pin.center_offset,
               full_left |-> FirstPoints(pin.center_offset),
               full_right |-> FirstPoints(pin.center_offset),
               iterations |-> 0,
               read |-> 0..pin.center_offset,
               branch |-> "none",
               before |-> << >>]
  /\ ppc' = "loop"
  /\ UNCHANGED <<pin, restOfPair>>

\* fewer than center_offset + 1 samples: the first line has one point, or
\* leftcurve[center_offset] is out of range
PairRaise ==
  /\ ppc = "start"
  /\ pin.nsamples < pin.center_offset + 1
  /\ ppc' = "raised"
  /\ UNCHANGED <<pin, ploop, restOfPair>>

\* the condition of the while loop, with or in place of and
LoopRunsEither(il, ir, nsamples, center_offset) ==
  il < nsamples - center_offset - 1 \/ ir < nsamples - center_offset - 1

\* il < nsamples-center_offset-1 and ir < nsamples-center_offset-1
LoopRuns(il, ir, nsamples, center_offset) ==
  il < nsamples - center_offset - 1 /\ ir < nsamples - center_offset - 1

\* the locals an iteration starts from
Before == [il |-> ploop.il, ir |-> ploop.ir,
           nleft |-> Len(ploop.full_left), nright |-> Len(ploop.full_right)]

\* ul == ur: both points are appended, both indices advance
PairBoth ==
  /\ ppc = "loop"
  /\ LoopRuns(ploop.il, ploop.ir, pin.nsamples, pin.center_offset)
  /\ ploop' = [ploop EXCEPT !.full_left = Append(@, ploop.il),
                            !.full_right = Append(@, ploop.ir),
                            !.il = @ + 1,
                            !.ir = @ + 1,
                            !.read = @ \cup {ploop.il + 1, ploop.ir + 1},
                            !.iterations = @ + 1,
                            !.branch = "both",
                            !.before = Before]
  /\ UNCHANGED <<ppc, pin, restOfPair>>

\* ul < ur: add center from right, ir advances
PairFromRight ==
  /\ ppc = "loop"
  /\ LoopRuns(ploop.il, ploop.ir, pin.nsamples, pin.center_offset)
  /\ ploop' = [ploop EXCEPT !.full_left = Append(@, Interpolated),
                            !.full_right = Append(@, ploop.ir),
                            !.ir = @ + 1,
                            !.read = @ \cup {ploop.ir + 1},
                            !.iterations = @ + 1,
                            !.branch = "right",
                            !.before = Before]
  /\ UNCHANGED <<ppc, pin, restOfPair>>

\* else: add center from left, il advances
PairFromLeft ==
  /\ ppc = "loop"
  /\ LoopRuns(ploop.il, ploop.ir, pin.nsamples, pin.center_offset)
  /\ ploop' = [ploop EXCEPT !.full_left = Append(@, ploop.il),
                            !.full_right = Append(@, Interpolated),
                            !.il = @ + 1,
                            !.read = @ \cup {ploop.il + 1},
                            !.iterations = @ + 1,
                            !.branch = "left",
                            !.before = Before]
  /\ UNCHANGED <<ppc, pin, restOfPair>>

\* the condition of the while loop fails; lines 320-321 extend both lists
\* by the last center_offset points
PairExit ==
  /\ ppc = "loop"
  /\ ~LoopRuns(ploop.il, ploop.ir, pin.nsamples, pin.center_offset)
  /\ ploop' = [ploop EXCEPT
                 !.full_left = @ \o LastPoints(pin.nsamples, pin.center_offset),
                 !.full_right = @ \o LastPoints(pin.nsamples, pin.center_offset),
                 !.read = @ \cup { LastPoints(pin.nsamples, pin.center_offset)[j] :
                                     j \in 1..pin.center_offset }]
  /\ ppc' = "extended"
  /\ UNCHANGED <<pin, restOfPair>>

PairNext ==
  \/ PairEnter
  \/ PairRaise
  \/ PairBoth
  \/ PairFromRight
  \/ PairFromLeft
  \/ PairExit

---------------------------------------------------------------------------
(* The skeleton walk of center_from_image_skeleton (geometry.py:1639-1668) *)
(* The skeleton is a set of pixels of a grid of three rows; pixel (r, c)   *)
(* is the number r * MaxSkelCols + c. skeleton_to_adjacency is taken to    *)
(* give each skeleton pixel the list of the skeleton pixels among its      *)
(* eight neighbours; the order of the keys and of each list is not known   *)
(* and is drawn: ascending or descending.                                  *)

\* columns of the grid
MaxSkelCols == 5

\* most pixels of a skeleton
MaxSkelPixels == 6

SkelCells == 0..(3 * MaxSkelCols - 1)

\* the skeletons of at most n pixels
Skeletons(n) == { S \in SUBSET SkelCells : Cardinality(S) <= n }

SkelInit ==
  /\ kpc = "skel"
  /\ kin \in [pixels : Skeletons(MaxSkelPixels), descending : BOOLEAN]
  /\ kwalk = << >>

\* two pixels of the grid touch, by a side or a corner
Touching(a, b) ==
  /\ a # b
  /\ Abs((a \div MaxSkelCols) - (b \div MaxSkelCols)) <= 1
  /\ Abs((a % MaxSkelCols) - (b % MaxSkelCols)) <= 1

\* the pixels of S as the list adj holds them
RECURSIVE InOrder(_, _)
InOrder(S, descending) ==
  IF S = {} THEN << >>
  ELSE LET x == CHOOSE x \in S : \A y \in S : IF descending THEN y <= x ELSE x <= y
       IN  <<x>> \o InOrder(S \ {x}, descending)

\* adj[p] of adj = skeleton_to_adjacency(skel)
AdjOf(k, p) == InOrder({ q \in k.pixels : Touching(p, q) }, k.descending)

\* adj.keys()
KeysOf(k) == InOrder(k.pixels, k.descending)

\* ht = np.where(nhs == 1)[0], as the keys at those positions
EndKeys(k) == SelectSeq(KeysOf(k), LAMBDA p : Len(AdjOf(k, p)) = 1)

\* len(ht) != 2: RuntimeError
SkelRaise ==
  /\ kpc = "skel"
  /\ Len(EndKeys(kin)) # 2
  /\ kwalk' = [exc |-> "RuntimeError"]
  /\ kpc' = "raised"
  /\ UNCHANGED <<kin, restOfSkel>>

\* e = adj.keys()[ht[1]]; p = adj.keys()[ht[0]]; xy[0] = p; i = 1; p0 = p
SkelStart ==
  /\ kpc = "skel"
  /\ Len(EndKeys(kin)) = 2
  /\ kwalk' = [exc |-> "none", e |-> EndKeys(kin)[2], p |-> EndKeys(kin)[1],
               p0 |-> EndKeys(kin)[1], i |-> 1, xy |-> <<EndKeys(kin)[1]>>,
               rows |-> Cardinality(kin.pixels)]
  /\ kpc' = "walk"
  /\ UNCHANGED <<kin, restOfSkel>>

\* the pixel the walk moves to from p: neighbrs[0] unless that is p0, else
\* neighbrs[1]
NextPixel(neighbrs, p0) == IF neighbrs[1] # p0 THEN neighbrs[1] ELSE neighbrs[2]

\* one iteration of while p != e; neighbrs[1] of a list of one and xy[i] of
\* a row past the last raise IndexError
SkelStep ==
  /\ kpc = "walk"
  /\ kwalk.p # kwalk.e
  /\ LET neighbrs == AdjOf(kin, kwalk.p)
     IN  IF (neighbrs[1] = kwalk.p0 /\ Len(neighbrs) < 2) \/ kwalk.i >= kwalk.rows
         THEN /\ kwalk' = [kwalk EXCEPT !.exc = "IndexError"]
              /\ kpc' = "raised"
         ELSE /\ kwalk' = [kwalk EXCEPT !.p0 = kwalk.p,
                                        !.p = NextPixel(neighbrs, kwalk.p0),
                                        !.xy = Append(@, NextPixel(neighbrs, kwalk.p0)),
                                        !.i = @ + 1]
              /\ kpc' = "walk"
  /\ UNCHANGED <<kin, restOfSkel>>

\* p == e: the loop is left
SkelDone ==
  /\ kpc = "walk"
  /\ kwalk.p = kwalk.e
  /\ kpc' = "done"
  /\ UNCHANGED <<kin, kwalk, restOfSkel>>

SkelNext ==
  \/ SkelRaise
  \/ SkelStart
  \/ SkelStep
  \/ SkelDone

---------------------------------------------------------------------------
(* Specifications                                                          *)

SidesIdle ==
  /\ spc = "idle"
  /\ sin = << >>
  /\ sout = << >>
  /\ sback = << >>

ThetaIdle ==
  /\ tpc = "idle"
  /\ tcenter = << >>
  /\ tstate = << >>
  /\ tcenter2 = << >>
  /\ tstate2 = << >>

CallIdle ==
  /\ cpc = "idle"
  /\ cargs = << >>
  /\ cret = << >>

WormIdle ==
  /\ wpc = "idle"
  /\ worm = << >>
  /\ wcall = << >>
  /\ wops = 0

DistIdle ==
  /\ dpc = "idle"
  /\ din = << >>
  /\ di = 0
  /\ dout = << >>
  /\ dstep = << >>

ErodeIdle ==
  /\ epc = "idle"
  /\ ein = << >>
  /\ eloop = << >>

PairIdle ==
  /\ ppc = "idle"
  /\ pin = << >>
  /\ ploop = << >>

SkelIdle ==
  /\ kpc = "idle"
  /\ kin = << >>
  /\ kwalk = << >>

SpecImageInit == ImageInit /\ SidesIdle /\ ThetaIdle /\ CallIdle /\ WormIdle /\ DistIdle /\ ErodeIdle
    /\ PairIdle /\ SkelIdle

SpecImageNext == ImageNext

SpecImage == SpecImageInit /\ [][SpecImageNext]_vars

SpecSidesInit == SidesInit /\ ImageIdle /\ ThetaIdle /\ CallIdle /\ WormIdle /\ DistIdle /\ ErodeIdle
    /\ PairIdle /\ SkelIdle

SpecSides == SpecSidesInit /\ [][SidesNext]_vars

SpecThetaInit == ThetaInit /\ ImageIdle /\ SidesIdle /\ CallIdle /\ WormIdle /\ DistIdle /\ ErodeIdle
    /\ PairIdle /\ SkelIdle

SpecTheta == SpecThetaInit /\ [][ThetaNext]_vars

SpecCallInit == CallInit /\ ImageIdle /\ SidesIdle /\ ThetaIdle /\ WormIdle /\ DistIdle /\ ErodeIdle
    /\ PairIdle /\ SkelIdle

SpecCall == SpecCallInit /\ [][CallNext]_vars

SpecWormInit == WormInit /\ ImageIdle /\ SidesIdle /\ ThetaIdle /\ CallIdle /\ DistIdle /\ ErodeIdle
    /\ PairIdle /\ SkelIdle

SpecWorm == SpecWormInit /\ [][WormNext]_vars

SpecDistInit ==
  DistInit /\ ImageIdle /\ SidesIdle /\ ThetaIdle /\ CallIdle /\ WormIdle /\ ErodeIdle
    /\ PairIdle /\ SkelIdle

SpecDist == SpecDistInit /\ [][DistNext]_vars

SpecErodeInit ==
  ErodeInit /\ ImageIdle /\ SidesIdle /\ ThetaIdle /\ CallIdle /\ WormIdle /\ DistIdle
    /\ PairIdle /\ SkelIdle

SpecErode == SpecErodeInit /\ [][ErodeNext]_vars

SpecPairInit ==
  PairInit /\ ImageIdle /\ SidesIdle /\ ThetaIdle /\ CallIdle /\ WormIdle /\ DistIdle
    /\ ErodeIdle /\ SkelIdle

SpecPair == SpecPairInit /\ [][PairNext]_vars

SpecSkelInit ==
  SkelInit /\ ImageIdle /\ SidesIdle /\ ThetaIdle /\ CallIdle /\ WormIdle /\ DistIdle
    /\ ErodeIdle /\ PairIdle

SpecSkel == SpecSkelInit /\ [][SkelNext]_vars

---------------------------------------------------------------------------
(* shape_from_image: properties                                            *)

\* detection ended without a contour (initially and on the retry, if any)
NoContourFound ==
  /\ pc \notin {"detect", "idle"}
  /\ cpath = "none"
  /\ Size(pts) = 0
  /\ sel = NoSel

\* the call has passed contour detection with at least one contour
ContoursFound == pc \notin {"detect", "idle"} /\ ~NoContourFound

\* C1: when no contour is found at the initial threshold nor at the reduced
\* one (or threshold_reduce is None), shape_from_image does not raise and
\* returns the tuple with status -1 and zero-filled arrays.
C1_NoContourReturnsFailure ==
  NoContourFound =>
    /\ exc = "none"
    /\ ret = [status |-> StatusFailed, returned |-> TRUE]

\* C2: whenever contour detection yields at least one contour, no branch of
\* shape_from_image ends in an exception, and the status returned is
\* nonnegative.
C2_NoBranchRaises ==
  ContoursFound =>
    /\ exc = "none"
    /\ pc # "raised"
    /\ (pc = "done" => ret.returned /\ ret.status >= 0)

\* no fallback: one contour at the initial threshold, two peaks or more at
\* the initial delta, no hint read
NoFallback ==
  /\ ~retried
  /\ cpath = "single"
  /\ hpath = "two_highest"
  /\ ~peaks.reduced

\* C3: a shape extracted without any fallback (one contour at the initial
\* threshold, at least two peaks at the initial delta, no hints) is returned
\* with status 0.
C3_NoFallbackStatusZero ==
  (pc = "done" /\ NoFallback) => ret.status = 0

CPaths == {"single", "outer", "contour_hint", "size_hint", "central"}
HPaths == {"hint_peaks", "two_highest", "hint_one_peak", "antipode",
           "hint_no_peak", "zero_mid"}

\* the status a run through the given branches accumulates
ContourCode(c) ==
  CASE c = "single"       -> StatusSingleContour
    [] c = "outer"        -> StatusSingleOuter
    [] c = "contour_hint" -> StatusContourHint
    [] c = "size_hint"    -> StatusSizeHint
    [] c = "central"      -> StatusMostCentral

HeadTailCode(h) ==
  CASE h = "hint_peaks"    -> StatusHintPeaks
    [] h = "two_highest"   -> StatusTwoHighest
    [] h = "hint_one_peak" -> StatusHintOnePeak
    [] h = "antipode"      -> StatusPeakAntipode
    [] h = "hint_no_peak"  -> StatusHintNoPeak
    [] h = "zero_mid"      -> StatusIndexZeroMid

StatusOf(r, c, h) ==
  (IF r THEN StatusThresholdReduced ELSE 0) + ContourCode(c) + HeadTailCode(h)

\* C4: the status of a non-failing run identifies its branch combination:
\* no other combination of threshold retry, contour-selection path and
\* head/tail path accumulates the status this run returns.
C4_StatusIdentifiesBranches ==
  pc = "done" =>
    \A r \in BOOLEAN, c \in CPaths, h \in HPaths :
      StatusOf(r, c, h) = ret.status => (r = retried /\ c = cpath /\ h = hpath)

\* a run returns after the threshold retry, the size-hint selection and the
\* peak-plus-antipode branch
C4_Witness ==
  /\ pc = "done"
  /\ retried
  /\ cpath = "size_hint"
  /\ hpath = "antipode"
  /\ ret.status = 1044

\* 4 * (squared distance) of a centroid (x, y) to the center of an image of
\* shape (rows, columns), which lies at x = columns/2, y = rows/2
ImageCenterDist(centroid, shape) ==
  (2 * centroid[1] - shape[2]) * (2 * centroid[1] - shape[2])
  + (2 * centroid[2] - shape[1]) * (2 * centroid[2] - shape[1])

\* C5: one contour gives +1, one outer contour gives +2; with two or more
\* outer contours the selection is by strict priority: contour_hint -> the
\* smallest shape-matching distance (+3), whatever size_hint is; else
\* size_hint -> the area closest to size_hint (+4); else the centroid closest
\* to the image center (+5).
C5_SelectionPriority ==
  pc = "interpolate" =>
    LET base  == IF retried THEN StatusThresholdReduced ELSE 0
        outer == sel.outer
        k     == Size(outer)
    IN  /\ Size(pts) = 1 => (status = base + 1 /\ sel.chosen = 0)
        /\ (Size(pts) # 1 /\ k = 1) => (status = base + 2 /\ sel.chosen = outer[0])
        /\ (Size(pts) # 1 /\ k >= 2) =>
             /\ sel.chosen = outer[sel.imin]
             /\ sel.contour_hint =>
                  /\ status = base + 3
                  /\ \A j \in DOMAIN outer : sel.dist[sel.imin] <= sel.dist[j]
             /\ (~sel.contour_hint /\ sel.size_hint.given) =>
                  /\ status = base + 4
                  /\ \A j \in DOMAIN outer :
                       Abs(pts[sel.chosen].area - sel.size_hint.value)
                         <= Abs(pts[outer[j]].area - sel.size_hint.value)
             /\ (~sel.contour_hint /\ ~sel.size_hint.given) =>
                  /\ status = base + 5
                  /\ \A j \in DOMAIN outer :
                       ImageCenterDist(sel.centroids[sel.imin], sel.shape)
                         <= ImageCenterDist(sel.centroids[j], sel.shape)

\* the head/tail step has run (to its end or to an exception)
HeadTailRan == ht.branch # "none"

\* index into the candidates (peaks, or contour samples when there is no
\* peak) of a contour index
CandidateOf(id) ==
  IF ht.npeaks = 0 THEN id
  ELSE CHOOSE i \in DOMAIN peaks.p : peaks.p[i].id = id

\* the head is at the candidate nearest the head hint, the tail at the one
\* nearest the tail hint (the nearest other one when both hints pick the same)
HintsMatched ==
  LET n   == IF ht.npeaks = 0 THEN ncontour ELSE ht.npeaks
      i_h == CandidateOf(imax[1])
      i_t == CandidateOf(imax[2])
  IN  /\ \A j \in 0..(n-1) : ht.dist_h[i_h] <= ht.dist_h[j]
      /\ \A j \in 0..(n-1) : (j # i_h \/ ~ht.tie) => ht.dist_t[i_t] <= ht.dist_t[j]

\* C6: the head/tail branch is a function of (number of in-range peaks,
\* hint present) and adds exactly one constant: >= 2 peaks with hint +10
\* (hints to nearest peaks), >= 2 without +20 (two highest peaks), 1 with
\* hint +30, 1 without +40 (peak and the sample ncontour//2 further on),
\* 0 with hint +50 (samples nearest the hints), 0 without +60 (0 and
\* ncontour//2).
C6_HeadTailTable ==
  HeadTailRan =>
    LET n    == ht.npeaks
        code == CASE n >= 2 /\ ht.hint  -> 10
                  [] n >= 2 /\ ~ht.hint -> 20
                  [] n = 1 /\ ht.hint   -> 30
                  [] n = 1 /\ ~ht.hint  -> 40
                  [] n = 0 /\ ht.hint   -> 50
                  [] n = 0 /\ ~ht.hint  -> 60
    IN  /\ exc = "none"
        /\ pc = "split"
        /\ status = ht.before + code
        /\ (n # 1 /\ ht.hint) => HintsMatched
        /\ (n >= 2 /\ ~ht.hint) =>
             /\ imax[1] # imax[2]
             /\ \A i \in DOMAIN peaks.p :
                  peaks.p[i].id \notin {imax[1], imax[2]} =>
                    /\ peaks.p[i].value <= peaks.p[CandidateOf(imax[1])].value
                    /\ peaks.p[i].value <= peaks.p[CandidateOf(imax[2])].value
        /\ (n = 1 /\ ~ht.hint) =>
             {imax[1], imax[2]} =
               {peaks.p[0].id, (peaks.p[0].id + (ncontour \div 2)) % ncontour}
        /\ (n = 0 /\ ~ht.hint) => imax = <<0, ncontour \div 2>>

\* C7: in every head/tail branch (ncontour >= 2) the two indices handed to
\* the side splitting are distinct and lie in 0..ncontour-1, also when both
\* hints are nearest to the same peak or contour sample.
C7_HeadTailDistinct ==
  pc \in {"split", "done"} =>
    /\ imax[1] # imax[2]
    /\ imax[1] \in 0..(ncontour-1)
    /\ imax[2] \in 0..(ncontour-1)

\* both hints were nearest to the same peak and the indices are handed on
C7_Witness ==
  /\ pc = "split"
  /\ ht.branch = "hint_peaks"
  /\ ht.tie
  /\ imax[1] # imax[2]

---------------------------------------------------------------------------
(* Width and center line of the midline strategies                         *)

\* C8: every midline strategy called with with_width = True returns a width
\* array with exactly as many entries as the returned center line has points.
C8_WidthMatchesCenter ==
  spc \in {"returned", "back"} =>
    /\ sout.exc = "none"
    /\ sout.width.n = sout.center.n

\* the call used the defaults nsamples = npoints = all, resample = False on
\* sides of the same number of samples, and the model followed the values
DefaultCall ==
  /\ sin.nsamples.all
  /\ sin.npoints.all
  /\ ~sin.resample
  /\ sin.left.n = sin.right.n

\* C9: for parallel sides with the same number of samples, the center line
\* and width of method 'mean' passed to shape_from_center give back exactly
\* the original left and right sides.
C9_MeanRoundTrip ==
  (spc = "back" /\ sout.fn = "mean" /\ DefaultCall /\ sout.center.known /\ sout.width.known) =>
    /\ sback.left = sin.left
    /\ sback.right = sin.right

\* the distance between the two sides of the call, which are parallel
SideDistance ==
  Norm(<<sin.left.v[0][1] - sin.right.v[0][1], sin.left.v[0][2] - sin.right.v[0][2]>>)

\* the call returned a width whose values the model followed
WidthFollowed ==
  /\ spc \in {"returned", "back"}
  /\ sout.exc = "none"
  /\ sout.width.known

\* C20: for every midline strategy, and for center_from_sides_min_projection
\* in particular, each returned width value is the distance between the
\* paired left and right points, so that shape_from_center (center +/-
\* 0.5 * width * normal) places the sides that distance apart.
C20_WidthIsDistance ==
  /\ WidthFollowed => \A i \in DOMAIN sout.width.v : sout.width.v[i] = SideDistance
  /\ (spc = "back" /\ sback.left.known /\ sback.right.known) =>
       \A i \in DOMAIN sback.left.v :
         Norm(<<sback.left.v[i][1] - sback.right.v[i][1],
                sback.left.v[i][2] - sback.right.v[i][2]>>) = SideDistance

---------------------------------------------------------------------------
(* Round trip between center line and theta                                *)

\* the rebuilt center line is the original one, point for point
SameCenter ==
  /\ Size(tcenter2.num) = Size(tcenter)
  /\ \A i \in DOMAIN tcenter :
       tcenter2.num[i] = <<tcenter2.den * tcenter[i][1], tcenter2.den * tcenter[i][2]>>

\* theta, orientation, xy and length taken from the rebuilt center line are
\* the ones it was built from
SameTheta ==
  /\ tstate2.exact
  /\ tstate2.theta = tstate.theta
  /\ tstate2.orientation = tstate.orientation
  /\ tstate2.xy = tstate.xy
  /\ tstate2.length = tstate.length

\* all segments of the center line have the same length
EqualSegments ==
  \A i, j \in DOMAIN Diff(tcenter) : Norm(Diff(tcenter)[i]) = Norm(Diff(tcenter)[j])

\* C10 as stated: for any center line of at least 5 points, whatever the
\* lengths of its segments, theta -> center line reproduces the center line
\* point for point and center line -> theta returns the same theta,
\* orientation, xy and length.
C10_RoundTripAnySegments ==
  tpc = "retaken" => (SameCenter /\ SameTheta)

\* C10: for a center line of at least 5 points whose segments all have the
\* same length, theta -> center line reproduces the center line point for
\* point; for every center line, center line -> theta returns the same
\* theta, orientation, xy and length.
C10_RoundTripEqualSegments ==
  tpc = "retaken" =>
    /\ EqualSegments => SameCenter
    /\ SameTheta

\* a bent center line of equal segments away from the origin has made the
\* round trip
C10_Witness ==
  /\ tpc = "retaken"
  /\ EqualSegments
  /\ tcenter[0] # <<0, 0>>
  /\ \E i, j \in DOMAIN tstate.theta : tstate.theta[i] > 0 /\ tstate.theta[j] < 0
  /\ SameCenter
  /\ SameTheta

---------------------------------------------------------------------------
(* center_from_theta and the requested number of points                    *)

\* the call asked for a number of points other than len(theta) + 2
LengthMismatch ==
  /\ ~cargs.npoints.all
  /\ cargs.npoints.n # Size(cargs.theta) + 2

\* C11 as stated: center_from_theta called with a theta whose length differs
\* from the requested number of center line points minus 2 fails with an
\* error and returns no center line.
C11_MismatchFails ==
  (cpc = "returned" /\ LengthMismatch) => cret.exc # "none"

\* C11: center_from_theta called with a theta whose length differs from the
\* requested number of points minus 2 raises nothing: it returns a center
\* line resampled to the requested number of points.
C11_MismatchResamples ==
  (cpc = "returned" /\ LengthMismatch) =>
    /\ cret.exc = "none"
    /\ cret.n = cargs.npoints.n

\* three angles and four points requested, nsamples left at its default
C11_Witness ==
  /\ cpc = "returned"
  /\ LengthMismatch
  /\ Size(cargs.theta) = 3
  /\ cargs.npoints.n = 4
  /\ cargs.nsamples.all
  /\ cret.exc = "none"
  /\ cret.resampled
  /\ cret.n = 4

---------------------------------------------------------------------------
(* center_from_sides: the strategy run for a method name                   *)

\* C12: center_from_sides runs the strategy named by its method argument
\* for each of mean, projection, vonroi and erosion; no method value runs a
\* strategy other than the one named.
C12_MethodRunsNamedStrategy ==
  spc = "dispatched" => sout.fn = sout.method

---------------------------------------------------------------------------
(* WormModel: properties                                                   *)

\* before the call, center line, width and npoints agreed on the number of
\* points
ConsistentBefore ==
  /\ wcall.before.center.n = wcall.before.npoints
  /\ wcall.before.width.n = wcall.before.npoints

\* the layout x0, y0, ..., x(n-1), y(n-1) [, length, speed, w0, ..., w(n-1)]
ParameterLayout(w, par, full) ==
  LET n == w.npoints
  IN  /\ par.n = IF full THEN 3 * n + 2 ELSE 2 * n
      /\ par.known =>
           /\ \A i \in 0..(n-1) : <<par.v[2 * i], par.v[2 * i + 1]>> = w.center.v[i]
           /\ full => /\ par.v[2 * n] = w.length.v[0]
                      /\ par.v[2 * n + 1] = w.speed.v[0]
                      /\ \A i \in 0..(n-1) : par.v[2 * n + 2 + i] = w.width.v[i]

\* C13: get_parameter(full=True) returns the 3n+2 vector [x0, y0, ...,
\* x(n-1), y(n-1), length, speed, w0, ..., w(n-1)] and get_parameter() its
\* first 2n entries; set_parameter of a 3n+2 vector restores the center
\* line, length, speed and width it encodes, and of a 2n vector leaves
\* length, speed and width untouched.
C13_ParameterRoundTrip ==
  /\ (wcall.op = "get_parameter" /\ ConsistentBefore) =>
       ParameterLayout(worm, wcall.par, wcall.full)
  /\ (wcall.op = "set_parameter" /\ ConsistentBefore /\ wcall.par.known) =>
       /\ wcall.exc = "none"
       /\ ParameterLayout(worm, wcall.par, wcall.par.n > 2 * worm.npoints)
       /\ wcall.par.n = 2 * worm.npoints =>
            /\ worm.length = wcall.before.length
            /\ worm.speed = wcall.before.speed
            /\ worm.width = wcall.before.width

\* C14: after any sequence of WormModel operations the width profile has as
\* many samples as the center line and npoints equals that count; a
\* construction with mismatching counts raises ValueError.
C14_WidthMatchesCenter ==
  /\ wpc = "live" =>
       /\ worm.width.n = worm.center.n
       /\ worm.npoints = worm.center.n
  /\ wpc = "failed" => wcall.exc = "ValueError"

\* C18: from_image raises RuntimeWarning and leaves center, width and length
\* unchanged when shape_from_image reports status -1; when detection
\* succeeds it replaces center and width by the detected ones and recomputes
\* the length from the new center line.
C18_FromImage ==
  wcall.op = "from_image" =>
    IF wcall.found.status = StatusFailed
    THEN /\ wcall.exc = "RuntimeWarning"
         /\ worm.center = wcall.before.center
         /\ worm.width = wcall.before.width
         /\ worm.length = wcall.before.length
    ELSE /\ wcall.exc = "none"
         /\ worm.center = Known(wcall.found.center)
         /\ worm.width = Known(wcall.found.width)
         /\ worm.length = Scalar(LengthFromCenter(wcall.found.center, 1))

\* C19: a WormModel constructed without a center line has a straight center
\* line of npoints samples whose middle point is at xy and whose total
\* length is the length argument.
C19_DefaultCenterLine ==
  (wcall.op = "init" /\ wpc = "live" /\ ~wcall.center.given) =>
    /\ worm.center.n = wcall.npoints
    /\ \A i, j \in DOMAIN Diff(worm.center.v) : Diff(worm.center.v)[i] = Diff(worm.center.v)[j]
    /\ TwiceCenterOfCenter(worm.center.v) = <<2 * worm.den * wcall.xy[1], 2 * worm.den * wcall.xy[2]>>
    /\ SumTo([i \in DOMAIN Diff(worm.center.v) |-> Norm(Diff(worm.center.v)[i])], worm.center.n - 1)
         = worm.den * wcall.length

---------------------------------------------------------------------------
(* distance_shape_to_contour_discrete: properties                          *)

\* the call returned head_match and tail_match for the hints of the last step
EndsMatched == dpc = "returned" /\ din.match

\* j is a hint point nearest to the end among those other than taken
NearestBut(dists, j, taken) ==
  /\ j \in DOMAIN dists
  /\ j # taken
  /\ \A l \in DOMAIN dists : l # taken => dists[j] <= dists[l]

\* the end was given up: no match, distance NaN
Unmatched(match, distance) == match.none /\ distance.nan

Valid(hits, sign) ==
  { k \in DOMAIN hits :
      din.min_alignment.given => sign * hits[k].cn >= din.min_alignment.value }

\* the step processed a boundary sample
SampleStep == dstep.side \in {"left", "right"}

StepSign == IF dstep.side = "left" THEN 1 ELSE -1

StepDistances(out) ==
  IF dstep.side = "left" THEN out.distances_left ELSE out.distances_right

StepPoints(out) ==
  IF dstep.side = "left" THEN out.intersection_pts_left ELSE out.intersection_pts_right

\* C16: for every processed boundary sample the distance and the
\* intersection point are NaN exactly when the search segment has no
\* intersection or, with min_alignment set, none with alignment >=
\* min_alignment; otherwise the distance is the least distance from the
\* sample to the remaining intersections. Such a sample does not end the
\* call (the loop moves on to the next index) and no other entry changes.
C16_SampleResult ==
  SampleStep =>
    LET hits  == ToArray(dstep.hits)
        valid == Valid(hits, StepSign)
        d     == StepDistances(dout)[dstep.i]
        p     == StepPoints(dout)[dstep.i]
    IN  /\ d.nan <=> valid = {}
        /\ p.nan <=> valid = {}
        /\ valid # {} =>
             \E k \in valid : /\ d.v = hits[k].d
                              /\ p.v = hits[k].xy
                              /\ \A l \in valid : hits[k].d <= hits[l].d
        /\ dpc \in {"left", "right"} /\ di = dstep.i + 1
        /\ \A j \in 0..(din.npts - 1) : j # dstep.i =>
             /\ StepDistances(dout)[j] = StepDistances(dstep.before)[j]
             /\ StepPoints(dout)[j] = StepPoints(dstep.before)[j]
        /\ dstep.side = "left" =>
             /\ dout.distances_right = dstep.before.distances_right
             /\ dout.intersection_pts_right = dstep.before.intersection_pts_right
        /\ dstep.side = "right" =>
             /\ dout.distances_left = dstep.before.distances_left
             /\ dout.intersection_pts_left = dstep.before.intersection_pts_left

\* a sample with intersections of which none is aligned got NaN, after a
\* sample of the same side got a distance that is still there
C16_Witness ==
  /\ SampleStep
  /\ dstep.i = 1
  /\ dstep.hits # << >>
  /\ din.min_alignment.given
  /\ StepDistances(dout)[1].nan
  /\ ~StepDistances(dout)[0].nan
  /\ StepDistances(dout)[0].v > 0

---------------------------------------------------------------------------
(* erosion loop: properties                                                *)

\* number of erosions accepted: calls of buffer whose result was kept
Accepted == Cardinality({ j \in 1..Len(eloop.calls) : eloop.calls[j] })

\* the last polygon whose boundary is a LineString: the result of the last
\* accepted call, or poly (0)
LastValid ==
  IF Accepted = 0 THEN 0
  ELSE CHOOSE j \in 1..Len(eloop.calls) :
         eloop.calls[j] /\ \A l \in 1..Len(eloop.calls) : eloop.calls[l] => l <= j

\* C17: the erosion loop makes at most maxiter erosion steps; it stops at
\* the first step whose eroded boundary is no single closed line; the
\* polygon used afterwards is the last valid one (the input polygon when
\* the first step is invalid); w is erode times the number of accepted steps.
C17_ErosionLoop ==
  /\ Len(eloop.calls) <= ein.maxiter
  /\ \A j \in 1..(Len(eloop.calls) - 1) : eloop.calls[j]
  /\ (Len(eloop.calls) > 0 /\ ~eloop.calls[Len(eloop.calls)]) => epc \in {"broken", "taken"}
  /\ epc = "exhausted" => Accepted = ein.maxiter
  /\ eloop.last = LastValid
  /\ epc = "taken" => eloop.used = LastValid
  /\ eloop.w = ein.erode * Accepted

\* the loop was left by break after two accepted erosions and the polygon
\* of the second one was used
C17_Witness ==
  /\ epc = "taken"
  /\ Len(eloop.calls) = 3
  /\ ~eloop.calls[3]
  /\ eloop.used = 2
  /\ eloop.w = 2 * ein.erode

---------------------------------------------------------------------------
(* WormModel: widen, scale, from_shape and the stored length               *)

\* the attributes w with every width sample multiplied by factor
Widened(w, factor) ==
  [w EXCEPT !.width = IF w.width.known
                      THEN Known([i \in DOMAIN w.width.v |-> factor * w.width.v[i]])
                      ELSE w.width]

\* C25: widen(factor) multiplies every width sample by factor and leaves
\* center, length, speed and npoints unchanged; scale(factor) has the effect
\* of stretch(factor) followed by widen(factor); both complete without error
\* on a model built by the constructor.
C25_WidenScale ==
  /\ wcall.op = "widen" =>
       /\ wcall.exc = "none"
       /\ worm = Widened(wcall.before, wcall.factor)
  /\ wcall.op = "scale" =>
       /\ wcall.exc = "none"
       /\ worm = Widened(StretchOf(wcall.before, wcall.factor), wcall.factor)

\* C26: from_shape uses a given center and a given width as they are and
\* derives from the sides only those that are None; for each of the four
\* combinations the call completes and the center and width afterwards are
\* the given or derived ones.
C26_FromShape ==
  wcall.op = "from_shape" =>
    /\ wcall.exc = "none"
    /\ wcall.center.given => worm.center = Known(wcall.center.v)
    /\ wcall.width.given => worm.width = Known(wcall.width.v)

\* C29: after any sequence of WormModel operations the stored length is the
\* arc length of the stored center line, in particular right after default
\* construction, after stretch and after from_center.
C29_LengthIsArcLength ==
  (wpc = "live" /\ worm.center.known) =>
    /\ worm.length.scalar
    /\ worm.den * worm.length.v[0] =
         SumTo([i \in DOMAIN Diff(worm.center.v) |-> Norm(Diff(worm.center.v)[i])],
               worm.center.n - 1)

---------------------------------------------------------------------------
(* The window of the windowed projection                                  *)

\* center_from_sides_projection was called with a number of neighbours
WindowedCall == spc \in {"returned", "back"} /\ sout.fn = "windowed"

\* C30: in the windowed variant of center_from_sides_projection, for every
\* nneighbours >= 1 and every sample i in 0..nsamples-1 the window
\* [max(0, i-nneighbours), min(i+nneighbours, nsamples)) holds sample i and
\* at least two samples, so that a polyline exists for every sample, the
\* first and the last included.
C30_WindowHoldsSample ==
  WindowedCall =>
    /\ \A i \in 0..(Prepare(sin).nsamples - 1) :
         LET w == WindowIndices(i, sout.nneighbours, Prepare(sin).nsamples)
         IN  i \in w /\ Cardinality(w) >= 2
    /\ sout.exc # "LineStringError"

---------------------------------------------------------------------------
(* Distances of the matched ends                                           *)

\* C23: on return from distance_shape_to_contour_discrete with a hint set,
\* whenever head_match is not None distance_head is the distance from the
\* head to match_head_tail[head_match], and whenever tail_match is not None
\* distance_tail is the distance from the tail to
\* match_head_tail[tail_match], also after a reassignment of either end.
C23_DistanceOfMatch ==
  EndsMatched =>
    LET e  == dout.ends
        dh == DistsTo(dstep.head, ToArray(dstep.hints))
        dt == DistsTo(dstep.tail, ToArray(dstep.hints))
    IN  /\ ~e.head_match.none =>
             ~e.distance_head.nan /\ e.distance_head.v = dh[e.head_match.i]
        /\ ~e.tail_match.none =>
             ~e.distance_tail.nan /\ e.distance_tail.v = dt[e.tail_match.i]

---------------------------------------------------------------------------
(* shape_from_image: the two sides                                         *)

\* the samples of the arc from the head parameter to the tail parameter
\* that runs against the left side: ncontour parameters in equal steps,
\* taken around the period
OtherArc(im, n) ==
  LET dir == IF im[2] > im[1] THEN 1 ELSE -1
  IN  [j \in 0..(n-1) |-> (im[1] * (n - 1) + j * (im[2] - im[1] - dir * n)) % Period(n)]

\* C21: for every pair of distinct head/tail indices, in either order, the
\* left side runs along the contour from the head parameter to the tail
\* parameter and the right side from the head parameter to the tail
\* parameter the other way round: the two sides are the complementary arcs
\* and together go round the closed contour exactly once.
C21_SidesComplementary ==
  (pc = "done" /\ ret.returned /\ ret.status # StatusFailed) =>
    /\ ret.u1[0] = imax[1] * (ncontour - 1)
    /\ ret.u1[ncontour - 1] = imax[2] * (ncontour - 1)
    /\ \A j \in 0..(ncontour - 1) : ret.u2[j] % Period(ncontour) = OtherArc(imax, ncontour)[j]

---------------------------------------------------------------------------
(* pairing loop of center_from_sides_min_projection: properties            *)

\* the last iteration appended one point to each list and advanced il, ir
\* or both by one
OneStep ==
  (ppc = "loop" /\ ploop.before # << >>) =>
    /\ Len(ploop.full_left) = ploop.before.nleft + 1
    /\ Len(ploop.full_right) = ploop.before.nright + 1
    /\ ploop.il - ploop.before.il \in {0, 1}
    /\ ploop.ir - ploop.before.ir \in {0, 1}
    /\ (ploop.il - ploop.before.il) + (ploop.ir - ploop.before.ir) >= 1

\* the entries of a list
Entries(full) == { full[j] : j \in 1..Len(full) }

\* every index read so far is an index of the boundary
ReadsInRange == \A i \in ploop.read : i >= 0 /\ i < pin.nsamples

\* full_left and full_right have the same length
SameLength == Len(ploop.full_left) = Len(ploop.full_right)

\* Claim C22 as stated: each iteration of the while loop appends exactly
\* one point to full_left and one to full_right and advances il, ir or both
\* by exactly one, never decreasing either and never reading a sample at an
\* index >= nsamples; the loop ends after at most
\* 2*(nsamples - 2*center_offset - 1) iterations with lists of equal length.
C22_LoopBound ==
  ppc \in {"loop", "extended"} =>
    /\ OneStep
    /\ ReadsInRange
    /\ SameLength
    /\ ploop.iterations <= 2 * (pin.nsamples - 2 * pin.center_offset - 1)

\* Claim C22, amended: the same, with the number of iterations at most
\* 2*(nsamples - 2*center_offset - 1) where that is positive and zero
\* where it is not (nsamples <= 2*center_offset).
C22_LoopBoundFromZero ==
  ppc \in {"loop", "extended"} =>
    /\ OneStep
    /\ ReadsInRange
    /\ SameLength
    /\ ploop.iterations <= Max2(0, 2 * (pin.nsamples - 2 * pin.center_offset - 1))

\* the loop was left after the most iterations it can make, some of them
\* advancing one index only
C22_Witness ==
  /\ ppc = "extended"
  /\ pin.nsamples >= 2 * pin.center_offset + 3
  /\ ploop.iterations = 2 * (pin.nsamples - 2 * pin.center_offset - 1) - 1
  /\ Interpolated \in Entries(ploop.full_left)
  /\ Interpolated \in Entries(ploop.full_right)

\* both indices are at nsamples - center_offset - 1 or beyond
BothAtEnd ==
  /\ ploop.il >= pin.nsamples - pin.center_offset - 1
  /\ ploop.ir >= pin.nsamples - pin.center_offset - 1

\* the samples of a side that are not in the list made of it
Skipped(full) == (0..(pin.nsamples - 1)) \ Entries(full)

\* Claim C28: when the while loop exits, both il and ir have reached
\* nsamples - center_offset - 1, and no sample of either boundary is
\* skipped between the last paired point and the last center_offset points.
C28_BothReachEnd ==
  ppc = "extended" =>
    /\ BothAtEnd
    /\ Skipped(ploop.full_left) = {}
    /\ Skipped(ploop.full_right) = {}

---------------------------------------------------------------------------
(* shape_from_theta: properties                                            *)

\* the names of the arrays of a returned tuple, in the order returned
NamesOf(out) == [j \in 1..Len(out) |-> out[j].name]

\* Claim C24: shape_from_theta_discrete and shape_from_theta_spline return
\* the same outputs in the same positions: center, left, right and, with
\* with_normals, the normals; so the names center, left, right that
\* test_theta unpacks the result into hold the center line, the left side
\* and the right side.
C24_SameOrder ==
  /\ cpc = "shape" =>
       NamesOf(cret.out) = IF cret.with_normals
                           THEN <<"center", "left", "right", "normals">>
                           ELSE <<"center", "left", "right">>
  /\ cpc = "unpacked" =>
       /\ cret.center.name = "center"
       /\ cret.left.name = "left"
       /\ cret.right.name = "right"

---------------------------------------------------------------------------
(* skeleton walk: properties                                               *)

\* the pixels joined to those of T by touching pixels of S
RECURSIVE Joined(_, _)
Joined(S, T) ==
  LET more == { q \in S \ T : \E p \in T : Touching(p, q) }
  IN  IF more = {} THEN T ELSE Joined(S, T \cup more)

\* S is a simple line: two pixels with one neighbour, all others with two,
\* and all of them joined
SimpleLine(S) ==
  /\ Cardinality({ p \in S : Cardinality({ q \in S : Touching(p, q) }) = 1 }) = 2
  /\ \A p \in S : Cardinality({ q \in S : Touching(p, q) }) \in {1, 2}
  /\ \E p \in S : Joined(S, {p}) = S

\* the walk wrote every pixel of the skeleton once, within the rows of xy
VisitedOnce ==
  /\ Len(kwalk.xy) = Cardinality(kin.pixels)
  /\ Entries(kwalk.xy) = kin.pixels
  /\ kwalk.i <= kwalk.rows

\* Claim C27: center_from_image_skeleton raises for every skeleton that is
\* not a simple line with exactly two endpoints; whenever it does not
\* raise, the walk from one endpoint to the other ends, has visited every
\* skeleton pixel exactly once and has written no row past len(adj).
C27_OnlySimpleLines ==
  /\ ~SimpleLine(kin.pixels) => kpc \in {"skel", "raised"}
  /\ kpc = "done" => VisitedOnce

====
